---- MODULE Spec2Model ----
(***************************************************************************)
(* Model of the subtitle synchronisation and rendering engine of           *)
(* social_content_engine (video_creation/video_overlay.py): the segment    *)
(* builders (wordcount, asr) as operators, and VideoOverlay with its       *)
(* create_final_video call as a state machine over the object's fields,    *)
(* the clip handles it opens and the temporary files it leaves on disk.    *)
(*                                                                         *)
(* Times are exact rationals <<numerator, denominator>>.  Text is a        *)
(* sequence of one-character strings, so that strip, split, join and len   *)
(* are computed and not assumed.                                           *)
(***************************************************************************)
EXTENDS Integers, Sequences, FiniteSets, TLC

VARIABLES
    \* ---- VideoOverlay fields (video_overlay.py 32-51)
    subtitles,        \* self.subtitles: sequence of <<start, end, text>>
    subtitle_mode,    \* self.subtitle_mode
    words_per_line,   \* self.words_per_line
    script_text,      \* self.script_text
    supplied_subs,    \* the segments the caller last supplied (lines 34 and 64)
    keep_sub_images,  \* self.keep_sub_images
    tmp_dir,          \* self._tmp_dir (0 is None)
    tmp_images,       \* self._tmp_images: sequence of <<dir, file>>
    \* ---- the world outside the object
    audio_duration,   \* duration of the file at audio_path, a rational
    video_duration,   \* duration of the file at video_path, a rational
    fp_delta,         \* rounding of the float division duration / len(words)
    asr_backend,      \* "missing" | "broken" | "ok": faster_whisper on this host
    asr_output,       \* what model.transcribe yields: a sequence of segments
    max_chars,        \* max_chars_per_line handed to the asr builder
    \* ---- what the current call has left in the world so far
    disk_dirs,        \* temporary directories of this call existing on disk
    disk_files,       \* files of this call existing on disk, each <<dir, file>>
    open_handles,     \* clip handles of this call opened and not closed
    \* ---- the running create_final_video call
    pc,               \* position of the call
    clips,            \* local list of _generate_dynamic_subtitles
    subtitle_clips,   \* local of create_final_video
    final_video,      \* local of create_final_video: composite built or not
    composite_layers, \* the clips handed to CompositeVideoClip, bottom first
    seg_idx,          \* position of the for loop over self.subtitles
    exc,              \* exception in flight or delivered to the caller
    written,          \* write_videofile completed
    built_by,         \* which builder produced self.subtitles in this call
    call_dirs,        \* directories minted by this call
    call_files,       \* files written by this call
    call_handles,     \* handles opened by this call
    cleanup_ran,      \* the finally block of this call has executed
    \* ---- one banner: _generate_dynamic_subtitles and _create_text_image
    video_size,       \* <<video_clip.w, video_clip.h>>
    style,            \* the style ratios of the object, rationals (lines 44-49)
    font_host,        \* fonts and drawing primitives of the host
    banner_text,      \* the text argument of _create_text_image
    banner,           \* locals of the two functions and the position in them
    \* ---- SocialContentEngine and its process_document call (main.py)
    eng_pc,           \* position of process_document
    eng_subtitle_mode,   \* self.subtitle_mode of the engine
    eng_words_per_line,  \* self.words_per_line of the engine
    extracted_text,   \* local of process_document
    generated_content,   \* local of process_document
    eng_exc,          \* exception process_document has raised
    eng_result,       \* path process_document has returned
    eng_files,        \* video files the pipeline has written
    \* ---- two invocations of create_final_video that overlap in time
    inv_obj,          \* the VideoOverlay instance each invocation runs on
    inv_pc,           \* position of each invocation
    inv_tmpdir,       \* local tmpdir of _generate_dynamic_subtitles (0 unset)
    inv_images,       \* images each invocation has saved
    obj_tmp_dir,      \* self._tmp_dir of each instance (0 is None)
    obj_keep,         \* self.keep_sub_images of each instance
    pair_dirs,        \* directories on disk
    pair_files,       \* image files on disk, each <<dir, invocation, number>>
    \* ---- SocialContentEngine: what the caller configured, what ran so far
    eng_prefs,        \* arguments, Config getters and environment of __init__
    eng_stages,       \* stages process_document has invoked, with outcomes
    \* ---- AIContentGenerator (content_generation/ai_content_generator.py)
    provider_arg,     \* the provider argument of __init__
    env_ai_provider,  \* AI_PROVIDER of the environment
    provider,         \* self.provider
    openai_api_key,   \* self.openai_api_key
    gemini_api_key,   \* self.gemini_api_key
    openai_service,   \* how the OpenAI endpoint answers
    gemini_service,   \* how the Gemini endpoint answers
    gen_pc,           \* position of generate_content
    provider_calls,   \* providers called by the current generate_content
    gen_exc,          \* exception generate_content has raised
    \* ---- the while loop of _build_subtitles_by_wordcount, step by step
    chunk_loop,       \* its inputs, locals and position
    \* ---- the finally block of create_final_video, step by step
    fin_pos,          \* how many handles of the close list have been tried
    fin_log           \* what the finally block has done so far, in order

vars == <<subtitles, subtitle_mode, words_per_line, script_text, keep_sub_images,
          tmp_dir, tmp_images, audio_duration, video_duration, fp_delta,
          asr_backend, asr_output, max_chars, disk_dirs, disk_files,
          open_handles, pc, clips, subtitle_clips, final_video, seg_idx, exc,
          written, built_by, call_dirs, call_files, call_handles, cleanup_ran,
          supplied_subs, composite_layers, video_size, style, font_host,
          banner_text, banner, eng_pc, eng_subtitle_mode, eng_words_per_line,
          extracted_text, generated_content, eng_exc, eng_result, eng_files,
          inv_obj, inv_pc, inv_tmpdir, inv_images, obj_tmp_dir, obj_keep,
          pair_dirs, pair_files, eng_prefs, eng_stages, provider_arg,
          env_ai_provider, provider, openai_api_key, gemini_api_key,
          openai_service, gemini_service, gen_pc, provider_calls, gen_exc,
          chunk_loop, fin_pos, fin_log>>

-----------------------------------------------------------------------------
(* Bounds of the model *)

MaxTextLen == 5      \* characters of a narration text
MaxDur == 3          \* audio duration, seconds
MaxWpl == 2          \* words_per_line
MaxAsrWords == 3     \* tokens the ASR backend returns
MaxAsrTime == 2      \* largest ASR timestamp, seconds
MaxChars == 3        \* max_chars_per_line of a direct call of the asr builder
MaxSegs == 2         \* manually supplied segments
RoundInv == 1000     \* 1 / relative rounding error of one float division

-----------------------------------------------------------------------------
(* Rational arithmetic: the float arithmetic of the builders, exact *)

RECURSIVE GCD(_, _)
GCD(a, b) == IF b = 0 THEN a ELSE GCD(b, a % b)

Abs(n) == IF n < 0 THEN 0 - n ELSE n

Rat(n, d) ==
    LET g == GCD(Abs(n), d)
    IN  <<n \div g, d \div g>>

RInt(n) == <<n, 1>>

RLe(a, b) == a[1] * b[2] <= b[1] * a[2]

RLt(a, b) == a[1] * b[2] < b[1] * a[2]

RAdd(a, b) == Rat(a[1] * b[2] + b[1] * a[2], a[2] * b[2])

RSub(a, b) == Rat(a[1] * b[2] - b[1] * a[2], a[2] * b[2])

RMulInt(k, a) == Rat(k * a[1], a[2])

RMin(a, b) == IF RLe(a, b) THEN a ELSE b

RMax(a, b) == IF RLt(a, b) THEN b ELSE a

-----------------------------------------------------------------------------
(* Text: str.strip, str.split, " ".join, len *)

Chars == {"a", "b", " "}

IsSpace(c) == c = " "

RECURSIVE LStrip(_)
LStrip(s) ==
    IF s = <<>> THEN <<>>
    ELSE IF IsSpace(Head(s)) THEN LStrip(Tail(s)) ELSE s

RECURSIVE RStrip(_)
RStrip(s) ==
    IF s = <<>> THEN <<>>
    ELSE IF IsSpace(s[Len(s)]) THEN RStrip(SubSeq(s, 1, Len(s) - 1)) ELSE s

Strip(s) == RStrip(LStrip(s))

\* str.split() with no argument: runs of whitespace separate, no empty words
RECURSIVE SplitFrom(_, _, _)
SplitFrom(s, cur, acc) ==
    IF s = <<>> THEN (IF cur = <<>> THEN acc ELSE Append(acc, cur))
    ELSE IF IsSpace(Head(s))
         THEN SplitFrom(Tail(s), <<>>, IF cur = <<>> THEN acc ELSE Append(acc, cur))
         ELSE SplitFrom(Tail(s), Append(cur, Head(s)), acc)

Split(s) == SplitFrom(s, <<>>, <<>>)

RECURSIVE Join(_)
Join(ws) ==
    IF ws = <<>> THEN <<>>
    ELSE IF Len(ws) = 1 THEN ws[1]
    ELSE ws[1] \o <<" ">> \o Join(Tail(ws))

\* seq[lo:hi] of Python, negative indices counted from the end
PySlice(s, lo, hi) ==
    LET n == Len(s)
        clamp(i) == IF i < 0 THEN (IF i + n < 0 THEN 0 ELSE i + n)
                    ELSE (IF i > n THEN n ELSE i)
        l == clamp(lo)
        h == clamp(hi)
    IN  IF l < h THEN SubSeq(s, l + 1, h) ELSE <<>>

RECURSIVE TextsUpTo(_)
TextsUpTo(n) ==
    IF n = 0 THEN {<<>>}
    ELSE LET shorter == TextsUpTo(n - 1)
         IN  shorter \cup {Append(t, c) : t \in {u \in shorter : Len(u) = n - 1},
                                          c \in Chars}

-----------------------------------------------------------------------------
(* _build_subtitles_by_wordcount, lines 112-137 *)

\* duration / len(words): the float quotient, off by at most one part in RoundInv
TPerWord(duration, nwords, delta) ==
    Rat(duration[1] * (RoundInv + delta), duration[2] * nwords * RoundInv)

\* a start taken one word late
ChunkStartAfter(i, t_per_word) == RMulInt(i + 1, t_per_word)

\* line 129
ChunkStart(i, t_per_word) == RMulInt(i, t_per_word)

\* an end taken one word too far
ChunkEndLate(i, chunk, t_per_word, duration) ==
    RMin(duration, RMulInt(i + Len(chunk) + 1, t_per_word))

\* line 130
ChunkEnd(i, chunk, t_per_word, duration) ==
    RMin(duration, RMulInt(i + Len(chunk), t_per_word))

\* the while loop of lines 126-132
RECURSIVE WordcountLoop(_, _, _, _, _, _)
WordcountLoop(words, i, wpl, t_per_word, duration, subs) ==
    IF ~(i < Len(words)) THEN subs
    ELSE LET chunk == PySlice(words, i, i + wpl)
         IN  IF chunk = <<>> THEN subs
             ELSE LET start == ChunkStart(i, t_per_word)
                      end == ChunkEnd(i, chunk, t_per_word, duration)
                  IN  WordcountLoop(words, i + wpl, wpl, t_per_word, duration,
                                    Append(subs, <<start, end, Join(chunk)>>))

\* the last segment left as the loop produced it
ForceLastEndNever(subs, duration) == subs

\* lines 134-136: the last segment's end is raised to the duration
ForceLastEnd(subs, duration) ==
    IF subs # <<>> /\ RLt(subs[Len(subs)][2], duration)
    THEN [subs EXCEPT ![Len(subs)] = <<subs[Len(subs)][1], duration, subs[Len(subs)][3]>>]
    ELSE subs

\* a guard that lets a zero duration through
NoDurationStrict(probe) == RLt(probe, RInt(0))

\* line 117: duration <= 0
NoDuration(probe) == RLe(probe, RInt(0))

\* probe is the duration read at line 114, 0 when the file cannot be opened
BuildSubtitlesByWordcount(text, probe, wpl, delta) ==
    IF NoDuration(probe) THEN <<>>
    ELSE LET words == Split(Strip(text))
         IN  IF words = <<>> THEN <<>>
             ELSE ForceLastEnd(
                      WordcountLoop(words, 0, wpl,
                                    TPerWord(probe, Len(words), delta),
                                    probe, <<>>),
                      probe)

-----------------------------------------------------------------------------
(* _build_subtitles_by_asr, lines 139-180 *)

NoneValue == "None"

\* lines 148-158: the word list, from seg.words or else from seg.text
RECURSIVE SegWordTokens(_)
SegWordTokens(ws) ==
    IF ws = <<>> THEN <<>>
    ELSE LET w == Head(ws)
             token == Strip(w.text)
         IN  (IF token # <<>>
              THEN <<[start |-> w.start, end |-> w.end, text |-> token]>>
              ELSE <<>>) \o SegWordTokens(Tail(ws))

RECURSIVE ExtractWords(_)
ExtractWords(segments) ==
    IF segments = <<>> THEN <<>>
    ELSE LET seg == Head(segments)
             token == Strip(seg.text)
         IN  (IF seg.words # <<>>
              THEN SegWordTokens(seg.words)
              ELSE IF token # <<>>
                   THEN <<[start |-> seg.start, end |-> seg.end, text |-> token]>>
                   ELSE <<>>) \o ExtractWords(Tail(segments))

WordTexts(ws) == [k \in 1..Len(ws) |-> ws[k].text]

\* a line that ends with its first word
LineOfFirstWord(cur, cur_start) ==
    <<cur_start, cur[1].end, Join(WordTexts(cur))>>

\* lines 169 and 172: (cur_start, cur[-1]["end"], " ".join(...))
LineOf(cur, cur_start) ==
    <<cur_start, cur[Len(cur)].end, Join(WordTexts(cur))>>

\* lines 161-172: greedy grouping of words into lines of at most budget characters
RECURSIVE GroupLines(_, _, _, _, _)
GroupLines(words, budget, lines, cur, cur_start) ==
    IF words = <<>>
    THEN (IF cur # <<>> THEN Append(lines, LineOf(cur, cur_start)) ELSE lines)
    ELSE LET w == Head(words)
             trial == Strip(Join(WordTexts(Append(cur, w))))
             cs == IF cur_start = NoneValue THEN w.start ELSE cur_start
         IN  IF Len(trial) <= budget
             THEN GroupLines(Tail(words), budget, lines, Append(cur, w), cs)
             ELSE GroupLines(Tail(words), budget,
                             IF cur # <<>> THEN Append(lines, LineOf(cur, cs)) ELSE lines,
                             <<w>>, w.start)

\* line 176: both right-hand sides are evaluated with the line's own s
RepairOne(s, e, last_end) ==
    LET s1 == RMax(RInt(0), s)
        e1 == RMax(RAdd(s, Rat(1, 100)), e)
        s2 == IF RLt(s1, last_end) THEN last_end ELSE s1
    IN  <<s2, e1>>

\* lines 174-180: the monotonicity repair pass
RECURSIVE RepairPass(_, _, _)
RepairPass(lines, out, last_end) ==
    IF lines = <<>> THEN out
    ELSE LET ln == Head(lines)
             se == RepairOne(ln[1], ln[2], last_end)
         IN  RepairPass(Tail(lines),
                        Append(out, <<se[1], se[2], Strip(ln[3])>>),
                        se[2])

\* lines 147-180, once the model has been constructed
AsrLines(segments, budget) ==
    RepairPass(GroupLines(ExtractWords(segments), budget, <<>>, <<>>, NoneValue),
               <<>>, RInt(0))

-----------------------------------------------------------------------------
(* VideoOverlay: construction and configuration helpers, lines 12-65 *)

Modes == {"manual", "wordcount", "asr", "karaoke"}

\* the mode argument as a caller may write it
ModeArgs == Modes \cup {NoneValue, "", "WORDCOUNT"}

\* str.lower() on the mode strings of the model
Lower(m) ==
    CASE m = "WORDCOUNT" -> "wordcount"
      [] m = "Manual" -> "manual"
      [] m = "ASR" -> "asr"
      [] m = "GEMINI" -> "gemini"
      [] m = "OpenAI" -> "openai"
      [] OTHER -> m

\* the truth value Python gives a string or None
Truthy(x) == x \notin {NoneValue, ""}

\* a normalisation that keeps the letter case of the argument
NormalizeModeAsGiven(m) == IF Truthy(m) THEN m ELSE "manual"

\* (mode or "manual").lower(), lines 35 and 58
NormalizeMode(m) == Lower(IF Truthy(m) THEN m ELSE "manual")

Seg(s, e, t) == <<RInt(s), RInt(e), t>>

\* segments a caller supplies: of positive, zero and negative length
ManualSegments == {Seg(0, 1, <<"a">>), Seg(1, 1, <<"b">>), Seg(2, 1, <<"a">>)}

RECURSIVE SeqsUpTo(_, _)
SeqsUpTo(S, n) ==
    IF n = 0 THEN {<<>>}
    ELSE LET shorter == SeqsUpTo(S, n - 1)
         IN  shorter \cup {Append(t, x) : t \in {u \in shorter : Len(u) = n - 1},
                                          x \in S}

ManualSubs == SeqsUpTo(ManualSegments, MaxSegs)

ScriptTexts == {<<>>, <<" ">>, <<"a">>, <<"a", " ", "b">>, <<" ", "a", " ", "b", " ", "a">>}

AudioDurations == {RInt(0), RInt(MaxDur)}

NoExc == [type |-> "none", at |-> "none"]

\* what transcribe yields on the host of the rendering runs
HostAsrOutput ==
    <<[start |-> RInt(0), end |-> RInt(1), text |-> <<" ", "a">>, words |-> <<>>],
      [start |-> RInt(1), end |-> RInt(2), text |-> <<" ", "b">>, words |-> <<>>]>>

\* max_chars_per_line of the call at line 83
AsrCallMaxChars == 38

\* the style ratios of __init__, lines 21-26
DefaultStyle ==
    [banner_ratio |-> Rat(6, 100), bottom_margin_ratio |-> Rat(4, 100),
     side_margin_ratio |-> Rat(5, 100), font_height_ratio |-> Rat(36, 100),
     stroke_ratio |-> Rat(8, 100)]

\* characters of a banner text: "u2013" is the en dash that _sanitize_text
\* replaces, "u4e2d" a character outside Latin-1
BannerChars == {"a", "b", " ", "-", "u2013", "u4e2d"}

\* a host where every candidate font loads
PlainHost ==
    [loadable |-> 1..8, default_size |-> 10, default_unicode |-> TRUE,
     stroke_ok |-> TRUE, glyph |-> [c \in BannerChars |-> 1]]

NoFont == [kind |-> "none", path |-> 0, size |-> 0]

\* the locals of _generate_dynamic_subtitles and _create_text_image, unset
BannerLocals(at) ==
    [pc |-> at, box_h |-> 0, bottom_margin |-> 0, y_pos |-> 0, text |-> <<>>,
     radius |-> 0, font_size |-> 0, font |-> NoFont, margin |-> 0,
     max_line_width |-> 0, lines |-> <<>>, line_step |-> 0, stroke_w |-> 0,
     drawn |-> <<>>, exc |-> "none", saved |-> FALSE]

BannerVars == <<video_size, style, font_host, banner_text, banner>>

BannerIdle ==
    /\ video_size = <<0, 0>>
    /\ style = DefaultStyle
    /\ font_host = PlainHost
    /\ banner_text = <<>>
    /\ banner = BannerLocals("off")

\* a file path: the name and its extension
Path(stem, ext) == [stem |-> stem, ext |-> ext]

NoPath == Path("", "")

EngineVars ==
    <<eng_pc, eng_subtitle_mode, eng_words_per_line, extracted_text,
      generated_content, eng_exc, eng_result, eng_files, eng_stages>>

\* no SocialContentEngine is in use
EngineIdle ==
    /\ eng_pc = "off"
    /\ eng_subtitle_mode = "wordcount"
    /\ eng_words_per_line = 5
    /\ extracted_text = <<>>
    /\ generated_content = <<>>
    /\ eng_exc = NoExc
    /\ eng_result = NoPath
    /\ eng_files = {}
    /\ eng_stages = <<>>

Invocations == 1..2

Instances == 1..2

PairVars ==
    <<inv_obj, inv_pc, inv_tmpdir, inv_images, obj_tmp_dir, obj_keep,
      pair_dirs, pair_files>>

\* no overlapping invocations are in view
PairIdle ==
    /\ inv_obj = [i \in Invocations |-> 1]
    /\ inv_pc = [i \in Invocations |-> "off"]
    /\ inv_tmpdir = [i \in Invocations |-> 0]
    /\ inv_images = [i \in Invocations |-> 0]
    /\ obj_tmp_dir = [o \in Instances |-> 0]
    /\ obj_keep = [o \in Instances |-> FALSE]
    /\ pair_dirs = {}
    /\ pair_files = {}

\* one source of a preference of SocialContentEngine: not given, or a value
Pref(kind, val) == [kind |-> kind, val |-> val]

\* main.py lines 23-24 and 36-55 with nothing configured: the arguments are
\* None, Config has no getter for either preference, the environment is unset
NoPrefs ==
    [arg_mode |-> Pref("none", ""), cfg_mode |-> Pref("absent", ""),
     env_mode |-> Pref("none", ""), arg_wpl |-> Pref("none", 0),
     cfg_wpl |-> Pref("absent", 0), env_wpl |-> Pref("none", 0)]

GenVars ==
    <<provider_arg, env_ai_provider, provider, openai_api_key, gemini_api_key,
      openai_service, gemini_service, gen_pc, provider_calls, gen_exc>>

\* no AIContentGenerator is in view
GenIdle ==
    /\ provider_arg = NoneValue
    /\ env_ai_provider = NoneValue
    /\ provider = "auto"
    /\ openai_api_key = ""
    /\ gemini_api_key = ""
    /\ openai_service = "ok"
    /\ gemini_service = "ok"
    /\ gen_pc = "off"
    /\ provider_calls = <<>>
    /\ gen_exc = NoExc

\* the locals of the chunking loop, lines 120-137, before it is entered
ChunkLocals(at) ==
    [pc |-> at, words |-> <<>>, words_per_line |-> 1, duration |-> RInt(1),
     delta |-> 0, i |-> 0, subs |-> <<>>, steps |-> 0]

CleanupVars == <<fin_pos, fin_log>>

\* the finally block is not being stepped through
CleanupIdle == fin_pos = 0 /\ fin_log = <<>>

\* the machines that stand beside the overlay, the banner, the engine and
\* the overlapping invocations
Further == <<eng_prefs, GenVars, chunk_loop, CleanupVars>>

FurtherIdle ==
    /\ eng_prefs = NoPrefs
    /\ GenIdle
    /\ chunk_loop = ChunkLocals("off")
    /\ CleanupIdle

\* the variables of the other machines of the module
Elsewhere == <<BannerVars, EngineVars, PairVars, Further>>

\* the other machines are not in use
ElsewhereIdle == BannerIdle /\ EngineIdle /\ PairIdle /\ FurtherIdle

Running == pc \notin {"idle", "returned", "raised"}

FrameVars == <<clips, subtitle_clips, final_video, seg_idx, exc, written,
               built_by, call_dirs, call_files, call_handles, cleanup_ran>>

\* the locals of a call as it starts
CallStart ==
    /\ clips' = <<>>
    /\ subtitle_clips' = <<>>
    /\ final_video' = FALSE
    /\ composite_layers' = <<>>
    /\ seg_idx' = 0
    /\ written' = FALSE
    /\ built_by' = "none"
    /\ call_dirs' = {}
    /\ call_files' = {}
    /\ cleanup_ran' = FALSE
    /\ disk_dirs' = {}
    /\ disk_files' = {}
    /\ asr_backend' = "unused"

\* no call is running: nothing of a call is in view
FrameReset ==
    /\ CallStart
    /\ exc' = NoExc
    /\ call_handles' = {}
    /\ open_handles' = {}

MediaVars == <<audio_duration, video_duration, fp_delta, asr_output, max_chars>>

WorldVars == <<audio_duration, video_duration, fp_delta, asr_backend, asr_output,
               max_chars, disk_dirs, disk_files, open_handles>>

\* __init__, lines 32-51
Init ==
    /\ subtitles \in ManualSubs
    /\ supplied_subs = subtitles
    /\ composite_layers = <<>>
    /\ ElsewhereIdle
    /\ subtitle_mode \in {NormalizeMode(m) : m \in ModeArgs}
    /\ words_per_line \in 1..MaxWpl
    /\ script_text = <<>>
    /\ keep_sub_images \in BOOLEAN
    /\ tmp_dir = 0
    /\ tmp_images = <<>>
    /\ audio_duration \in AudioDurations
    /\ video_duration = RInt(MaxDur)
    /\ fp_delta = 0
    /\ asr_backend = "unused"
    /\ asr_output = HostAsrOutput
    /\ max_chars = AsrCallMaxChars
    /\ disk_dirs = {}
    /\ disk_files = {}
    /\ open_handles = {}
    /\ pc = "idle"
    /\ clips = <<>>
    /\ subtitle_clips = <<>>
    /\ final_video = FALSE
    /\ seg_idx = 0
    /\ exc = NoExc
    /\ written = FALSE
    /\ built_by = "none"
    /\ call_dirs = {}
    /\ call_files = {}
    /\ call_handles = {}
    /\ cleanup_ran = FALSE

\* set_script_text, lines 54-55
SetScriptText ==
    /\ ~Running
    /\ \E t \in ScriptTexts : script_text' = t
    /\ pc' = "idle"
    /\ FrameReset
    /\ UNCHANGED <<subtitles, subtitle_mode, words_per_line, keep_sub_images,
                   tmp_dir, tmp_images, MediaVars>>
    /\ UNCHANGED <<supplied_subs, Elsewhere>>

\* set_subtitle_mode with words_per_line left None, lines 57-58
SetSubtitleMode ==
    /\ ~Running
    /\ \E m \in ModeArgs : subtitle_mode' = NormalizeMode(m)
    /\ pc' = "idle"
    /\ FrameReset
    /\ UNCHANGED <<subtitles, words_per_line, script_text, keep_sub_images,
                   tmp_dir, tmp_images, MediaVars>>
    /\ UNCHANGED <<supplied_subs, Elsewhere>>

\* set_subtitle_mode with words_per_line given, lines 57-60
SetSubtitleModeAndWords ==
    /\ ~Running
    /\ \E m \in ModeArgs, w \in 1..MaxWpl :
          /\ subtitle_mode' = NormalizeMode(m)
          /\ words_per_line' = w
    /\ pc' = "idle"
    /\ FrameReset
    /\ UNCHANGED <<subtitles, script_text, keep_sub_images, tmp_dir, tmp_images,
                   MediaVars>>
    /\ UNCHANGED <<supplied_subs, Elsewhere>>

\* update_audio_and_subtitles, lines 62-65
UpdateAudioAndSubtitles ==
    /\ ~Running
    /\ \E d \in AudioDurations, subs \in ManualSubs :
          /\ audio_duration' = d
          /\ subtitles' = subs
          /\ supplied_subs' = subs
    /\ subtitle_mode' = "manual"
    /\ pc' = "idle"
    /\ FrameReset
    /\ UNCHANGED <<words_per_line, script_text, keep_sub_images, tmp_dir,
                   tmp_images, video_duration, fp_delta, asr_output, max_chars>>
    /\ UNCHANGED <<Elsewhere>>

-----------------------------------------------------------------------------
(* create_final_video, lines 68-109, one action per call it makes *)

ObjectVars == <<subtitles, subtitle_mode, words_per_line, script_text,
                keep_sub_images, tmp_dir, tmp_images>>

Handle(kind) == <<kind, 0>>

\* an exception that leaves create_final_video outside its try block
Escape(type, at) ==
    /\ exc' = [type |-> type, at |-> at]
    /\ pc' = "raised"

\* an exception raised inside the try block: control goes to the finally block
Caught(type, at) ==
    /\ exc' = [type |-> type, at |-> at]
    /\ pc' = "finally"

\* line 69: mp.VideoFileClip(self.video_path)
OpenVideo ==
    /\ ~Running
    /\ CallStart
    /\ exc' = NoExc
    /\ pc' = "build"
    /\ open_handles' = {Handle("video")}
    /\ call_handles' = {Handle("video")}
    /\ UNCHANGED <<ObjectVars, MediaVars>>
    /\ UNCHANGED <<supplied_subs, Elsewhere>>

OpenVideoFails ==
    /\ ~Running
    /\ CallStart
    /\ call_handles' = {}
    /\ open_handles' = {}
    /\ Escape("OSError", "open_video")
    /\ UNCHANGED <<ObjectVars, MediaVars>>
    /\ UNCHANGED <<supplied_subs, Elsewhere>>

\* a guard that calls the builder of the mode whatever self.subtitles holds
NeedsBuildAlways == TRUE

\* line 73: if not self.subtitles
NeedsBuild == subtitles = <<>>

\* lines 73-84 when no builder is called
BuildNothing ==
    /\ pc = "build"
    /\ ~NeedsBuild \/ subtitle_mode \notin {"wordcount", "asr"}
    /\ pc' = "open_audio"
    /\ UNCHANGED <<ObjectVars, WorldVars, FrameVars>>
    /\ UNCHANGED <<supplied_subs, composite_layers, Elsewhere>>

\* lines 74-79; the clip opened at line 114 is bound to no name and not closed
BuildWordcount ==
    /\ pc = "build"
    /\ NeedsBuild
    /\ subtitle_mode = "wordcount"
    /\ subtitles' = BuildSubtitlesByWordcount(script_text, audio_duration,
                                              words_per_line, fp_delta)
    /\ open_handles' = open_handles \cup {Handle("probe")}
    /\ call_handles' = call_handles \cup {Handle("probe")}
    /\ built_by' = "wordcount"
    /\ pc' = "open_audio"
    /\ UNCHANGED <<subtitle_mode, words_per_line, script_text, keep_sub_images,
                   tmp_dir, tmp_images, MediaVars, asr_backend, disk_dirs,
                   disk_files, clips, subtitle_clips, final_video, seg_idx, exc,
                   written, call_dirs, call_files, cleanup_ran>>
    /\ UNCHANGED <<supplied_subs, composite_layers, Elsewhere>>

\* lines 113-118: the audio cannot be opened, the duration is taken as 0.0
BuildWordcountNoAudio ==
    /\ pc = "build"
    /\ NeedsBuild
    /\ subtitle_mode = "wordcount"
    /\ subtitles' = BuildSubtitlesByWordcount(script_text, RInt(0),
                                              words_per_line, fp_delta)
    /\ built_by' = "wordcount"
    /\ pc' = "open_audio"
    /\ UNCHANGED <<subtitle_mode, words_per_line, script_text, keep_sub_images,
                   tmp_dir, tmp_images, WorldVars, clips, subtitle_clips,
                   final_video, seg_idx, exc, written, call_dirs, call_files,
                   call_handles, cleanup_ran>>
    /\ UNCHANGED <<supplied_subs, composite_layers, Elsewhere>>

\* lines 140-143: faster_whisper cannot be imported
BuildAsrNoBackend ==
    /\ pc = "build"
    /\ NeedsBuild
    /\ subtitle_mode = "asr"
    /\ asr_backend' = "missing"
    /\ subtitles' = <<>>
    /\ built_by' = "asr"
    /\ pc' = "open_audio"
    /\ UNCHANGED <<subtitle_mode, words_per_line, script_text, keep_sub_images,
                   tmp_dir, tmp_images, MediaVars, disk_dirs, disk_files,
                   open_handles, clips, subtitle_clips, final_video, seg_idx, exc,
                   written, call_dirs, call_files, call_handles, cleanup_ran>>
    /\ UNCHANGED <<supplied_subs, composite_layers, Elsewhere>>

\* lines 145-146: WhisperModel(...) or model.transcribe(...) raises, outside any try
BuildAsrBackendFails ==
    /\ pc = "build"
    /\ NeedsBuild
    /\ subtitle_mode = "asr"
    /\ asr_backend' = "broken"
    /\ built_by' = "asr"
    /\ Escape("RuntimeError", "asr_model")
    /\ UNCHANGED <<ObjectVars, MediaVars, disk_dirs, disk_files, open_handles,
                   clips, subtitle_clips, final_video, seg_idx, written,
                   call_dirs, call_files, call_handles, cleanup_ran>>
    /\ UNCHANGED <<supplied_subs, composite_layers, Elsewhere>>

\* lines 80-84 and 145-180 with a working backend
BuildAsr ==
    /\ pc = "build"
    /\ NeedsBuild
    /\ subtitle_mode = "asr"
    /\ asr_backend' = "ok"
    /\ subtitles' = AsrLines(asr_output, max_chars)
    /\ built_by' = "asr"
    /\ pc' = "open_audio"
    /\ UNCHANGED <<subtitle_mode, words_per_line, script_text, keep_sub_images,
                   tmp_dir, tmp_images, MediaVars, disk_dirs, disk_files,
                   open_handles, clips, subtitle_clips, final_video, seg_idx, exc,
                   written, call_dirs, call_files, call_handles, cleanup_ran>>
    /\ UNCHANGED <<supplied_subs, composite_layers, Elsewhere>>

\* line 86: mp.AudioFileClip(self.audio_path).set_duration(video_clip.duration)
OpenAudio ==
    /\ pc = "open_audio"
    /\ open_handles' = open_handles \cup {Handle("audio")}
    /\ call_handles' = call_handles \cup {Handle("audio")}
    /\ pc' = "generate"
    /\ UNCHANGED <<ObjectVars, MediaVars, asr_backend, disk_dirs, disk_files,
                   clips, subtitle_clips, final_video, seg_idx, exc, written,
                   built_by, call_dirs, call_files, cleanup_ran>>
    /\ UNCHANGED <<supplied_subs, composite_layers, Elsewhere>>

OpenAudioFails ==
    /\ pc = "open_audio"
    /\ Escape("OSError", "open_audio")
    /\ UNCHANGED <<ObjectVars, WorldVars, clips, subtitle_clips, final_video,
                   seg_idx, written, built_by, call_dirs, call_files,
                   call_handles, cleanup_ran>>
    /\ UNCHANGED <<supplied_subs, composite_layers, Elsewhere>>

-----------------------------------------------------------------------------
(* _generate_dynamic_subtitles, lines 183-206, inside the try of line 89 *)

\* tempfile.mkdtemp: a directory name that no existing directory has
FreshDir == CHOOSE d \in 1..(Cardinality(disk_dirs) + 1) : d \notin disk_dirs

\* lines 189-193: _ensure_tmpdir mints a directory only when _tmp_dir is unset
EnterGenerate ==
    /\ pc = "generate"
    /\ IF tmp_dir = 0
       THEN /\ tmp_dir' = FreshDir
            /\ disk_dirs' = disk_dirs \cup {FreshDir}
            /\ call_dirs' = call_dirs \cup {FreshDir}
       ELSE UNCHANGED <<tmp_dir, disk_dirs, call_dirs>>
    /\ clips' = <<>>
    /\ seg_idx' = 1
    /\ pc' = "loop"
    /\ UNCHANGED <<subtitles, subtitle_mode, words_per_line, script_text,
                   keep_sub_images, tmp_images, MediaVars, asr_backend,
                   disk_files, open_handles, subtitle_clips, final_video, exc,
                   written, built_by, call_files, call_handles, cleanup_ran>>
    /\ UNCHANGED <<supplied_subs, composite_layers, Elsewhere>>

\* line 185: mkdtemp raises
EnterGenerateFails ==
    /\ pc = "generate"
    /\ tmp_dir = 0
    /\ Caught("OSError", "mkdtemp")
    /\ UNCHANGED <<ObjectVars, WorldVars, clips, subtitle_clips, final_video,
                   seg_idx, written, built_by, call_dirs, call_files,
                   call_handles, cleanup_ran>>
    /\ UNCHANGED <<supplied_subs, composite_layers, Elsewhere>>

CurSeg == subtitles[seg_idx]

\* a drop rule that keeps segments of zero length
DroppedStrict(seg) == RLt(seg[2], seg[1])

\* line 196: the drop rule
Dropped(seg) == RLe(seg[2], seg[1])

\* line 196: continue
LoopSkip ==
    /\ pc = "loop"
    /\ seg_idx <= Len(subtitles)
    /\ Dropped(CurSeg)
    /\ seg_idx' = seg_idx + 1
    /\ UNCHANGED <<ObjectVars, WorldVars, pc, clips, subtitle_clips, final_video,
                   exc, written, built_by, call_dirs, call_files, call_handles,
                   cleanup_ran>>
    /\ UNCHANGED <<supplied_subs, composite_layers, Elsewhere>>

\* an overlay clip that starts where its segment ends
OverlayClipAtEnd(image, seg) ==
    [image |-> image, start |-> seg[2], duration |-> RSub(seg[2], seg[1]),
     handle |-> <<"overlay", seg_idx>>]

\* the overlay clip of lines 200-205
OverlayClip(image, seg) ==
    [image |-> image, start |-> seg[1], duration |-> RSub(seg[2], seg[1]),
     handle |-> <<"overlay", seg_idx>>]

\* lines 197-205: one banner image and one overlay clip
LoopRender ==
    /\ pc = "loop"
    /\ seg_idx <= Len(subtitles)
    /\ ~Dropped(CurSeg)
    /\ LET image == <<tmp_dir, seg_idx>>
           clip == OverlayClip(image, CurSeg)
       IN  /\ disk_files' = disk_files \cup {image}
           /\ call_files' = call_files \cup {image}
           /\ tmp_images' = Append(tmp_images, image)
           /\ clips' = Append(clips, clip)
           /\ open_handles' = open_handles \cup {clip.handle}
           /\ call_handles' = call_handles \cup {clip.handle}
    /\ seg_idx' = seg_idx + 1
    /\ UNCHANGED <<subtitles, subtitle_mode, words_per_line, script_text,
                   keep_sub_images, tmp_dir, MediaVars, asr_backend, disk_dirs,
                   pc, subtitle_clips, final_video, exc, written, built_by,
                   call_dirs, cleanup_ran>>
    /\ UNCHANGED <<supplied_subs, composite_layers, Elsewhere>>

\* line 198: _create_text_image raises; the image file may already be on disk
\* (final.save, line 289, failing part-way), and is not recorded in _tmp_images
LoopBannerFails ==
    /\ pc = "loop"
    /\ seg_idx <= Len(subtitles)
    /\ ~Dropped(CurSeg)
    /\ \E saved \in BOOLEAN :
          LET image == IF saved THEN {<<tmp_dir, seg_idx>>} ELSE {}
          IN  /\ disk_files' = disk_files \cup image
              /\ call_files' = call_files \cup image
    /\ Caught("ValueError", "create_text_image")
    /\ UNCHANGED <<ObjectVars, MediaVars, asr_backend, disk_dirs, open_handles,
                   clips, subtitle_clips, final_video, seg_idx, written,
                   built_by, call_dirs, call_handles, cleanup_ran>>
    /\ UNCHANGED <<supplied_subs, composite_layers, Elsewhere>>

\* line 201: mp.ImageClip raises after the image was saved and recorded
LoopClipFails ==
    /\ pc = "loop"
    /\ seg_idx <= Len(subtitles)
    /\ ~Dropped(CurSeg)
    /\ LET image == <<tmp_dir, seg_idx>>
       IN  /\ disk_files' = disk_files \cup {image}
           /\ call_files' = call_files \cup {image}
           /\ tmp_images' = Append(tmp_images, image)
    /\ Caught("OSError", "image_clip")
    /\ UNCHANGED <<subtitles, subtitle_mode, words_per_line, script_text,
                   keep_sub_images, tmp_dir, MediaVars, asr_backend, disk_dirs,
                   open_handles, clips, subtitle_clips, final_video, seg_idx,
                   written, built_by, call_dirs, call_handles, cleanup_ran>>
    /\ UNCHANGED <<supplied_subs, composite_layers, Elsewhere>>

\* lines 206 and 90: return clips, bound to subtitle_clips
LoopReturn ==
    /\ pc = "loop"
    /\ seg_idx > Len(subtitles)
    /\ subtitle_clips' = clips
    /\ pc' = "composite"
    /\ UNCHANGED <<ObjectVars, WorldVars, clips, final_video, seg_idx, exc,
                   written, built_by, call_dirs, call_files, call_handles,
                   cleanup_ran>>
    /\ UNCHANGED <<supplied_subs, composite_layers, Elsewhere>>

\* the handles of a list of overlay clips, in the order of the list
ClipHandles(cs) == [k \in 1..Len(cs) |-> cs[k].handle]

\* line 91: mp.CompositeVideoClip([video_clip, *subtitle_clips]).set_audio(audio_clip)
Composite ==
    /\ pc = "composite"
    /\ final_video' = TRUE
    /\ composite_layers' = <<Handle("video")>> \o ClipHandles(subtitle_clips)
    /\ open_handles' = open_handles \cup {Handle("composite")}
    /\ call_handles' = call_handles \cup {Handle("composite")}
    /\ pc' = "write"
    /\ UNCHANGED <<ObjectVars, MediaVars, asr_backend, disk_dirs, disk_files,
                   clips, subtitle_clips, seg_idx, exc, written, built_by,
                   call_dirs, call_files, cleanup_ran>>
    /\ UNCHANGED <<supplied_subs, Elsewhere>>

CompositeFails ==
    /\ pc = "composite"
    /\ Caught("ValueError", "composite")
    /\ UNCHANGED <<ObjectVars, WorldVars, clips, subtitle_clips, final_video,
                   seg_idx, written, built_by, call_dirs, call_files,
                   call_handles, cleanup_ran>>
    /\ UNCHANGED <<supplied_subs, composite_layers, Elsewhere>>

\* line 92: final_video.write_videofile(output_path, ...)
WriteVideo ==
    /\ pc = "write"
    /\ written' = TRUE
    /\ pc' = "finally"
    /\ UNCHANGED <<ObjectVars, WorldVars, clips, subtitle_clips, final_video,
                   seg_idx, exc, built_by, call_dirs, call_files, call_handles,
                   cleanup_ran>>
    /\ UNCHANGED <<supplied_subs, composite_layers, Elsewhere>>

WriteVideoFails ==
    /\ pc = "write"
    /\ Caught("IOError", "write_videofile")
    /\ UNCHANGED <<ObjectVars, WorldVars, clips, subtitle_clips, final_video,
                   seg_idx, written, built_by, call_dirs, call_files,
                   call_handles, cleanup_ran>>
    /\ UNCHANGED <<supplied_subs, composite_layers, Elsewhere>>

\* the handles the finally block closes, lines 95-104
ClosedByFinally ==
    {subtitle_clips[k].handle : k \in 1..Len(subtitle_clips)}
        \cup (IF final_video THEN {Handle("composite")} ELSE {})
        \cup {Handle("audio"), Handle("video")}

\* removal only when the render succeeded
RemovesTmpDirOnSuccess ==
    tmp_dir # 0 /\ tmp_dir \in disk_dirs /\ ~keep_sub_images /\ exc = NoExc

\* line 107: the condition under which the temporary directory is removed
RemovesTmpDir == tmp_dir # 0 /\ tmp_dir \in disk_dirs /\ ~keep_sub_images

\* lines 93-109: the finally block, then the call returns or re-raises
Finally ==
    /\ pc = "finally"
    /\ open_handles' = open_handles \ ClosedByFinally
    /\ IF RemovesTmpDir
       THEN /\ disk_dirs' = disk_dirs \ {tmp_dir}
            /\ disk_files' = {f \in disk_files : f[1] # tmp_dir}
       ELSE UNCHANGED <<disk_dirs, disk_files>>
    /\ tmp_dir' = 0
    /\ tmp_images' = <<>>
    /\ cleanup_ran' = TRUE
    /\ pc' = IF exc = NoExc THEN "returned" ELSE "raised"
    /\ UNCHANGED <<subtitles, subtitle_mode, words_per_line, script_text,
                   keep_sub_images, MediaVars, asr_backend, clips,
                   subtitle_clips, final_video, seg_idx, exc, written, built_by,
                   call_dirs, call_files, call_handles>>
    /\ UNCHANGED <<supplied_subs, composite_layers, Elsewhere>>

Next ==
    \/ SetScriptText
    \/ SetSubtitleMode
    \/ SetSubtitleModeAndWords
    \/ UpdateAudioAndSubtitles
    \/ OpenVideo
    \/ OpenVideoFails
    \/ BuildNothing
    \/ BuildWordcount
    \/ BuildWordcountNoAudio
    \/ BuildAsrNoBackend
    \/ BuildAsrBackendFails
    \/ BuildAsr
    \/ OpenAudio
    \/ OpenAudioFails
    \/ EnterGenerate
    \/ EnterGenerateFails
    \/ LoopSkip
    \/ LoopRender
    \/ LoopBannerFails
    \/ LoopClipFails
    \/ LoopReturn
    \/ Composite
    \/ CompositeFails
    \/ WriteVideo
    \/ WriteVideoFails
    \/ Finally

Spec == Init /\ [][Next]_vars

-----------------------------------------------------------------------------
(* The builders called on their own, over all inputs within the bounds *)

\* defaults of everything a builder does not read
BuilderFrame ==
    /\ subtitles = <<>>
    /\ supplied_subs = <<>>
    /\ composite_layers = <<>>
    /\ ElsewhereIdle
    /\ keep_sub_images = FALSE
    /\ tmp_dir = 0
    /\ tmp_images = <<>>
    /\ video_duration = RInt(MaxDur)
    /\ disk_dirs = {}
    /\ disk_files = {}
    /\ open_handles = {}
    /\ pc = "build"
    /\ clips = <<>>
    /\ subtitle_clips = <<>>
    /\ final_video = FALSE
    /\ seg_idx = 0
    /\ exc = NoExc
    /\ written = FALSE
    /\ built_by = "none"
    /\ call_dirs = {}
    /\ call_files = {}
    /\ call_handles = {}
    /\ cleanup_ran = FALSE
    /\ asr_backend = "unused"

\* _build_subtitles_by_wordcount(text, audio_path, words_per_line)
InitWordcount ==
    /\ BuilderFrame
    /\ subtitle_mode = "wordcount"
    /\ script_text \in TextsUpTo(MaxTextLen)
    /\ audio_duration \in {RInt(d) : d \in (0 - 1)..MaxDur}
    /\ words_per_line \in (0 - 1)..MaxWpl
    /\ fp_delta \in {0 - 1, 0, 1}
    /\ asr_output = <<>>
    /\ max_chars = AsrCallMaxChars

NextWordcount ==
    \/ BuildWordcount
    \/ BuildWordcountNoAudio

SpecWordcount == InitWordcount /\ [][NextWordcount]_vars

AsrTimes == (0 - 1)..MaxAsrTime

AsrWordTexts == {<<" ", "a">>, <<"a", "b">>}

\* word tokens of the backend; one of them is blank
AsrTokens ==
    {[start |-> RInt(s), end |-> RInt(e), text |-> t] :
        s \in AsrTimes, e \in AsrTimes, t \in AsrWordTexts}
    \cup {[start |-> RInt(0), end |-> RInt(1), text |-> <<" ">>]}

\* one segment carrying word timestamps (seg.words), lines 150-154
AsWordLevel(toks) ==
    IF toks = <<>> THEN <<>>
    ELSE <<[start |-> toks[1].start, end |-> toks[Len(toks)].end,
            text |-> Join(WordTexts(toks)), words |-> toks]>>

\* segments without word timestamps (seg.text), lines 155-158
AsSegmentLevel(toks) ==
    [k \in 1..Len(toks) |->
        [start |-> toks[k].start, end |-> toks[k].end, text |-> toks[k].text,
         words |-> <<>>]]

\* _build_subtitles_by_asr(audio_path, max_chars_per_line)
InitAsr ==
    /\ BuilderFrame
    /\ subtitle_mode = "asr"
    /\ script_text = <<>>
    /\ audio_duration = RInt(MaxDur)
    /\ words_per_line = 1
    /\ fp_delta = 0
    /\ \E toks \in SeqsUpTo(AsrTokens, MaxAsrWords), word_level \in BOOLEAN :
          asr_output = IF word_level THEN AsWordLevel(toks) ELSE AsSegmentLevel(toks)
    /\ max_chars \in {1, MaxChars}

NextAsr ==
    \/ BuildAsr
    \/ BuildAsrNoBackend
    \/ BuildAsrBackendFails

SpecAsr == InitAsr /\ [][NextAsr]_vars

-----------------------------------------------------------------------------
(* Properties *)

Exited == pc \in {"returned", "raised"}

REq(a, b) == a[1] * b[2] = b[1] * a[2]

\* non-decreasing starts, and no segment ends after the next one starts
Ordered(segs) ==
    \A i \in 1..(Len(segs) - 1) :
        /\ RLe(segs[i][1], segs[i + 1][1])
        /\ RLe(segs[i][2], segs[i + 1][1])

HasWord(text) == \E k \in 1..Len(text) : text[k] # " "

KeptSegments == {k \in 1..Len(subtitles) : RLt(subtitles[k][1], subtitles[k][2])}

\* _generate_dynamic_subtitles has returned its clip list in this call
GenerateReturned ==
    \/ pc \in {"composite", "write"}
    \/ /\ pc \in {"finally", "returned", "raised"}
       /\ cleanup_ran \/ pc = "finally"
       /\ exc.at \in {"none", "composite", "write_videofile"}

\* C1: once create_final_video has returned or raised, no temporary directory
\* and no banner image created by the call is left on disk, unless
\* keep_sub_images is set, and then all of them are left.
C1_TempFilesReleased ==
    Exited =>
        IF keep_sub_images
        THEN call_dirs \subseteq disk_dirs /\ call_files \subseteq disk_files
        ELSE call_dirs \cap disk_dirs = {} /\ call_files \cap disk_files = {}

C1_Witness ==
    /\ pc = "raised"
    /\ exc.at = "image_clip"
    /\ ~keep_sub_images
    /\ Cardinality(call_files) >= 2
    /\ call_dirs # {}
    /\ disk_files = {}
    /\ disk_dirs = {}

\* C2: once create_final_video has returned or raised, every clip handle the
\* call opened (video, audio, the duration probe of the wordcount builder,
\* overlay clips, composite) is closed.
C2_HandlesClosedOnExit == Exited => call_handles \cap open_handles = {}

\* C3: a failure of create_final_video reaches the caller as a RenderError,
\* and the cleanup of the finally block has run before it does.
C3_RenderErrorAfterCleanup ==
    pc = "raised" => exc.type = "RenderError" /\ cleanup_ran

\* C4: the segments _build_subtitles_by_asr returns are non-decreasing in
\* start, and each ends no later than the next one starts.
C4_AsrOrdered ==
    (built_by = "asr" /\ asr_backend = "ok") => Ordered(subtitles)

\* C5: for words_per_line >= 1 the segments _build_subtitles_by_wordcount
\* returns are non-decreasing in start, and each ends no later than the next
\* one starts.
C5_WordcountOrdered ==
    (built_by = "wordcount" /\ words_per_line >= 1) => Ordered(subtitles)

C5_Witness ==
    /\ built_by = "wordcount"
    /\ words_per_line = 1
    /\ fp_delta = 1
    /\ Len(subtitles) >= 3
    /\ RLt(subtitles[1][2], subtitles[3][1])

\* C6: with a duration D > 0, a text of at least one word and
\* words_per_line >= 1, the wordcount result is non-empty, starts at 0 and
\* its last segment ends at D exactly.
C6_WordcountCoversDuration ==
    ( /\ built_by = "wordcount"
      /\ Handle("probe") \in call_handles
      /\ RLt(RInt(0), audio_duration)
      /\ HasWord(script_text)
      /\ words_per_line >= 1 )
    => /\ subtitles # <<>>
       /\ REq(subtitles[1][1], RInt(0))
       /\ REq(subtitles[Len(subtitles)][2], audio_duration)

C6_Witness ==
    /\ built_by = "wordcount"
    /\ Handle("probe") \in call_handles
    /\ fp_delta = 0 - 1
    /\ words_per_line = 2
    /\ Len(subtitles) = 2
    /\ REq(subtitles[2][2], audio_duration)
    /\ RLt(RInt(0), subtitles[2][1])

\* C7: every segment a builder returns has 0 <= start < end and a text that
\* is not empty once trimmed.
C7_BuiltSegmentsValid ==
    (built_by \in {"wordcount", "asr"} /\ words_per_line >= 1) =>
        \A k \in 1..Len(subtitles) :
            /\ RLe(RInt(0), subtitles[k][1])
            /\ RLt(subtitles[k][1], subtitles[k][2])
            /\ Strip(subtitles[k][3]) # <<>>

\* C8: when _generate_dynamic_subtitles returns, a segment with end <= start
\* has no banner image and no overlay clip, a segment with end > start has
\* exactly one of each, and the number of overlay clips is the number of
\* segments with end > start.
C8_DropRule ==
    GenerateReturned =>
        /\ Len(subtitle_clips) = Cardinality(KeptSegments)
        /\ \A k \in 1..Len(subtitles) :
              LET n == Cardinality({j \in 1..Len(subtitle_clips) :
                                       subtitle_clips[j].handle = <<"overlay", k>>})
                  m == Cardinality({f \in call_files : f[2] = k})
              IN  IF k \in KeptSegments THEN n = 1 /\ m = 1 ELSE n = 0 /\ m = 0

C8_Witness ==
    /\ pc = "composite"
    /\ Len(subtitles) = 2
    /\ REq(subtitles[1][1], subtitles[1][2])
    /\ Len(subtitle_clips) = 1
    /\ subtitle_clips[1].handle = <<"overlay", 2>>

\* C9: the wordcount builder returns no segment when the duration is <= 0,
\* the audio cannot be opened or the text has no word; and a call whose
\* subtitle track is empty renders no banner, so that no exception comes from
\* rendering one, and when it returns the video is written with no overlay clip.
C9_EmptyTrackIsValid ==
    /\ ( /\ built_by = "wordcount"
         /\ \/ Handle("probe") \notin call_handles
            \/ RLe(audio_duration, RInt(0))
            \/ ~HasWord(script_text) )
       => subtitles = <<>>
    /\ (subtitles = <<>> /\ pc \in {"finally", "raised"})
       => exc.at \notin {"create_text_image", "image_clip"}
    /\ (subtitles = <<>> /\ pc = "returned")
       => written /\ final_video /\ subtitle_clips = <<>> /\ call_files = {}

C9_Witness ==
    /\ pc = "returned"
    /\ built_by = "wordcount"
    /\ Handle("probe") \in call_handles
    /\ audio_duration = RInt(0)
    /\ HasWord(script_text)
    /\ subtitles = <<>>
    /\ written

\* C10: when the ASR backend is unavailable (import fails, or building or
\* running the model fails) the asr builder returns no segment and raises
\* nothing.
C10_AsrUnavailableIsCaptionless ==
    (built_by = "asr" /\ asr_backend \in {"missing", "broken"}) =>
        /\ subtitles = <<>>
        /\ exc = NoExc \/ exc.at # "asr_model"

\* the captions the wordcount strategy produces for the inputs of this call
WordcountCaptions ==
    BuildSubtitlesByWordcount(script_text, audio_duration, words_per_line,
                              fp_delta)

\* self.subtitles was empty when the running call began: it is empty still,
\* or a builder of this call has filled it
EmptyAtCallStart == subtitles = <<>> \/ built_by # "none"

\* C11: a create_final_video call in mode "manual" that began with an empty
\* subtitle list renders the captions of the wordcount strategy for
\* the script text, the audio duration and the configured words_per_line.
C11_ManualFallsBackToWordcount ==
    (pc = "open_audio" /\ subtitle_mode = "manual" /\ EmptyAtCallStart)
        => subtitles = WordcountCaptions

\* the wordcount builder has returned the segments of a call whose audio
\* could be read
WordcountBuilt ==
    /\ pc = "open_audio"
    /\ built_by = "wordcount"
    /\ Handle("probe") \in open_handles

Min(a, b) == IF a <= b THEN a ELSE b

\* Scenario A of the specification: ten words, ten seconds, five per line
ScenarioAWords ==
    << <<"o", "n", "e">>, <<"t", "w", "o">>, <<"t", "h", "r", "e", "e">>,
       <<"f", "o", "u", "r">>, <<"f", "i", "v", "e">>, <<"s", "i", "x">>,
       <<"s", "e", "v", "e", "n">>, <<"e", "i", "g", "h", "t">>,
       <<"n", "i", "n", "e">>, <<"t", "e", "n">> >>

ScenarioA ==
    BuildSubtitlesByWordcount(Join(ScenarioAWords), RInt(10), 5, 0)
        = << <<RInt(0), RInt(5), Join(SubSeq(ScenarioAWords, 1, 5))>>,
             <<RInt(5), RInt(10), Join(SubSeq(ScenarioAWords, 6, 10))>> >>

\* C12: for D > 0, W >= 1 words and N = words_per_line >= 1 the wordcount
\* builder returns ceil(W/N) segments; segment k holds words k*N ..
\* min(W, (k+1)*N) - 1 joined by single spaces, starts at k*N*(D/W) and ends
\* at min(D, (k+1)*N*(D/W)), which is D for the last segment.  D/W is the
\* float quotient of line 124; where the division is exact (fp_delta = 0)
\* the times are the exact rationals.  Scenario A gives (0, 5, 'one two
\* three four five') and (5, 10, 'six seven eight nine ten').
C12_WordcountSegments ==
    /\ ScenarioA
    /\ (/\ WordcountBuilt
        /\ RLt(RInt(0), audio_duration)
        /\ Split(script_text) # <<>>
        /\ words_per_line >= 1)
       => LET words == Split(script_text)
              W == Len(words)
              N == words_per_line
              D == audio_duration
              t == TPerWord(D, W, fp_delta)
              exact == Rat(D[1], D[2] * W)
              count == (W + N - 1) \div N
          IN  /\ Len(subtitles) = count
              /\ \A k \in 0..(count - 1) :
                    LET seg == subtitles[k + 1]
                    IN  /\ seg[3] = Join(SubSeq(words, k * N + 1,
                                                 Min(W, (k + 1) * N)))
                        /\ seg[1] = RMulInt(k * N, t)
                        /\ seg[2] = IF k = count - 1 THEN D
                                     ELSE RMin(D, RMulInt((k + 1) * N, t))
                        /\ fp_delta = 0 =>
                              /\ seg[1] = RMulInt(k * N, exact)
                              /\ seg[2] = RMin(D, RMulInt((k + 1) * N, exact))
              /\ Join([k \in 1..count |-> subtitles[k][3]]) = Join(words)

\* three words at two per line over three seconds: a full chunk and a
\* partial one
C12_Witness ==
    /\ WordcountBuilt
    /\ audio_duration = RInt(MaxDur)
    /\ Len(Split(script_text)) = 3
    /\ words_per_line = 2
    /\ fp_delta = 0
    /\ Len(subtitles) = 2

\* the positions in self.subtitles of the segments with end > start, in order
RetainedIndexes ==
    LET Retained(k) == RLt(subtitles[k][1], subtitles[k][2])
    IN  SelectSeq([k \in 1..Len(subtitles) |-> k], Retained)

\* C14: the clip list returned by _generate_dynamic_subtitles has one clip
\* per segment with end > start, in segment order: the i-th clip is the clip
\* of the i-th such segment, starts at its start, lasts end - start and has
\* an image file of its own; the compositor receives the base video and
\* then these clips in the same order.
C14_ClipsFollowSegments ==
    GenerateReturned =>
        LET kept == RetainedIndexes
        IN  /\ Len(subtitle_clips) = Len(kept)
            /\ \A i \in 1..Len(subtitle_clips) :
                  LET clip == subtitle_clips[i]
                      seg == subtitles[kept[i]]
                  IN  /\ clip.handle = <<"overlay", kept[i]>>
                      /\ clip.start = seg[1]
                      /\ clip.duration = RSub(seg[2], seg[1])
                      /\ \A j \in 1..Len(subtitle_clips) :
                            j # i => subtitle_clips[j].image # clip.image
            /\ final_video =>
                  composite_layers
                      = <<Handle("video")>>
                          \o [i \in 1..Len(kept) |-> <<"overlay", kept[i]>>]

\* a dropped segment followed by a retained one, whose clip is the first and
\* only overlay handed to the compositor
C14_Witness ==
    /\ pc = "write"
    /\ Len(subtitles) = 2
    /\ RetainedIndexes = <<2>>
    /\ composite_layers = <<Handle("video"), <<"overlay", 2>> >>

\* two retained segments composited in segment order
C14_WitnessTwo ==
    /\ pc = "write"
    /\ RetainedIndexes = <<1, 2>>
    /\ Len(composite_layers) = 3

\* C18: segments built by a builder are used by that one call: a call in a
\* building mode for which the caller supplied no segments builds its own
\* segments from the current inputs, whatever an earlier call has built.
C18_SegmentsBuiltAfresh ==
    (/\ pc = "open_audio"
     /\ supplied_subs = <<>>
     /\ subtitle_mode \in {"wordcount", "asr"})
        => /\ built_by = subtitle_mode
           /\ (subtitle_mode = "wordcount" /\ Handle("probe") \in open_handles)
                 => subtitles = WordcountCaptions

\* start and duration of the clips of the retained segments of segs, in order
ClipTimes(segs) ==
    LET Retained(k) == RLt(segs[k][1], segs[k][2])
        kept == SelectSeq([k \in 1..Len(segs) |-> k], Retained)
    IN  [i \in 1..Len(kept) |->
            <<segs[kept[i]][1], RSub(segs[kept[i]][2], segs[kept[i]][1])>>]

\* C20: when the caller supplied a non-empty segment list (constructor or
\* update_audio_and_subtitles), no builder runs in the call, whatever the
\* mode, and the clips rendered are those of the supplied segments, unchanged
\* and in order.
C20_SuppliedSegmentsRendered ==
    (pc \notin {"idle", "build"} /\ supplied_subs # <<>>)
        => /\ built_by = "none"
           /\ subtitles = supplied_subs
           /\ GenerateReturned =>
                 [i \in 1..Len(subtitle_clips) |->
                     <<subtitle_clips[i].start, subtitle_clips[i].duration>>]
                     = ClipTimes(supplied_subs)

\* supplied segments rendered by a call in mode "wordcount"
C20_Witness ==
    /\ pc = "write"
    /\ subtitle_mode = "wordcount"
    /\ supplied_subs # <<>>
    /\ Len(subtitle_clips) >= 1
    /\ built_by = "none"

-----------------------------------------------------------------------------
(* One banner: the layout of _generate_dynamic_subtitles, lines 188-192, and
   one call of _create_text_image, lines 236-289 *)

MaxBannerLen == 5    \* characters of a banner text
MaxLineBudget == 4   \* largest max_line_width of the wrap runs, in glyph units

\* the entries of candidates, lines 210-217
FontCandidates == 8

Max(a, b) == IF a >= b THEN a ELSE b

\* int(x) of a float: truncation toward zero
PyInt(r) == IF r[1] >= 0 THEN r[1] \div r[2] ELSE 0 - ((0 - r[1]) \div r[2])

\* line 190
BoxH(vh) == Max(50, PyInt(RMulInt(vh, style.banner_ratio)))

\* line 191
BottomMargin(vh) == Max(8, PyInt(RMulInt(vh, style.bottom_margin_ratio)))

\* line 192
YPos(vh, box_h, bottom_margin) == vh - box_h - bottom_margin

\* line 243
Radius(img_h) == Max(10, img_h \div 6)

\* a font size taken from the ratio alone
FontSizeNoFloor(img_h) == PyInt(RMulInt(img_h, style.font_height_ratio))

\* line 250
FontSize(img_h) == Max(18, PyInt(RMulInt(img_h, style.font_height_ratio)))

\* line 255
Margin(img_w) == Max(16, PyInt(RMulInt(img_w, style.side_margin_ratio)))

\* line 256
MaxLineWidth(img_w, margin) == img_w - 2 * margin

\* line 271: int(font.size + max(6, font.size*0.2))
LineStep(font) ==
    PyInt(RAdd(RInt(font.size), RMax(RInt(6), Rat(font.size, 5))))

\* line 274
StrokeW(font) == Max(1, PyInt(RMulInt(font.size, style.stroke_ratio)))

\* lines 218-221: the first candidate that loads, else the built-in font
RECURSIVE FontFrom(_, _)
FontFrom(k, font_size) ==
    IF k > FontCandidates
    THEN [kind |-> "default", path |-> 0, size |-> font_host.default_size]
    ELSE IF k \in font_host.loadable
         THEN [kind |-> "truetype", path |-> k, size |-> font_size]
         ELSE FontFrom(k + 1, font_size)

FindUnicodeFont(font_size) == FontFrom(1, font_size)

\* lines 224-227, of which the en dash stands for the nine replacements
RECURSIVE SanitizeText(_)
SanitizeText(t) ==
    IF t = <<>> THEN <<>>
    ELSE <<IF Head(t) = "u2013" THEN "-" ELSE Head(t)>> \o SanitizeText(Tail(t))

IsAscii(c) == c \notin {"u2013", "u4e2d"}

\* text.encode("ascii", "ignore").decode("ascii"), line 233
AsciiOnly(t) == SelectSeq(t, IsAscii)

\* the font has a glyph encoding for every character of the text: the
\* built-in bitmap font encodes Latin-1 only
CanEncode(font, t) ==
    \/ font.kind = "truetype"
    \/ font_host.default_unicode
    \/ \A k \in 1..Len(t) : t[k] # "u4e2d"

\* draw.textlength when it does not raise
RECURSIVE TextLength(_)
TextLength(t) ==
    IF t = <<>> THEN 0 ELSE font_host.glyph[Head(t)] + TextLength(Tail(t))

\* lines 230-233
SafeTextLength(t, font) ==
    IF CanEncode(font, t) THEN TextLength(t) ELSE TextLength(AsciiOnly(t))

\* a test that accepts every trial line
FitsAlways(trial, font, max_line_width) == TRUE

\* line 261
Fits(trial, font, max_line_width) ==
    SafeTextLength(trial, font) <= max_line_width

\* lines 258-266: the greedy wrap loop
RECURSIVE WrapLoop(_, _, _, _, _, _)
WrapLoop(words, k, lines, line, font, max_line_width) ==
    IF k > Len(words)
    THEN (IF line # <<>> THEN Append(lines, Join(line)) ELSE lines)
    ELSE LET w == words[k]
             trial == Join(Append(line, w))
         IN  IF Fits(trial, font, max_line_width)
             THEN WrapLoop(words, k + 1, lines, Append(line, w), font,
                           max_line_width)
             ELSE WrapLoop(words, k + 1,
                           IF line # <<>> THEN Append(lines, Join(line))
                           ELSE lines,
                           <<w>>, font, max_line_width)

\* lines 257-266
WrapLines(t, font, max_line_width) ==
    WrapLoop(Split(t), 1, <<>>, <<>>, font, max_line_width)

OverlayVars ==
    <<subtitles, subtitle_mode, words_per_line, script_text, keep_sub_images,
      tmp_dir, tmp_images, audio_duration, video_duration, fp_delta,
      asr_backend, asr_output, max_chars, disk_dirs, disk_files, open_handles,
      pc, clips, subtitle_clips, final_video, seg_idx, exc, written, built_by,
      call_dirs, call_files, call_handles, cleanup_ran, supplied_subs,
      composite_layers>>

\* a VideoOverlay(video_path, audio_path) with no call running
OverlayIdle ==
    /\ subtitles = <<>>
    /\ supplied_subs = <<>>
    /\ subtitle_mode = "manual"
    /\ words_per_line = 5
    /\ script_text = <<>>
    /\ keep_sub_images = FALSE
    /\ tmp_dir = 0
    /\ tmp_images = <<>>
    /\ audio_duration = RInt(MaxDur)
    /\ video_duration = RInt(MaxDur)
    /\ fp_delta = 0
    /\ asr_backend = "unused"
    /\ asr_output = HostAsrOutput
    /\ max_chars = AsrCallMaxChars
    /\ disk_dirs = {}
    /\ disk_files = {}
    /\ open_handles = {}
    /\ pc = "idle"
    /\ clips = <<>>
    /\ subtitle_clips = <<>>
    /\ final_video = FALSE
    /\ composite_layers = <<>>
    /\ seg_idx = 0
    /\ exc = NoExc
    /\ written = FALSE
    /\ built_by = "none"
    /\ call_dirs = {}
    /\ call_files = {}
    /\ call_handles = {}
    /\ cleanup_ran = FALSE

\* what a banner step leaves alone
BannerInputs ==
    <<OverlayVars, video_size, style, font_host, banner_text, EngineVars,
      PairVars, Further>>

\* lines 189-192
GenerateLayout ==
    /\ banner.pc = "start"
    /\ LET vh == video_size[2]
           box_h == BoxH(vh)
           bottom_margin == BottomMargin(vh)
       IN  banner' = [banner EXCEPT !.pc = "image", !.box_h = box_h,
                                    !.bottom_margin = bottom_margin,
                                    !.y_pos = YPos(vh, box_h, bottom_margin)]
    /\ UNCHANGED BannerInputs

\* lines 237-247: the text is sanitized and the background drawn
BannerBackground ==
    /\ banner.pc = "image"
    /\ banner' = [banner EXCEPT !.pc = "font",
                                !.text = SanitizeText(banner_text),
                                !.radius = Radius(banner.box_h)]
    /\ UNCHANGED BannerInputs

\* lines 250-251
BannerFont ==
    /\ banner.pc = "font"
    /\ LET font_size == FontSize(banner.box_h)
       IN  banner' = [banner EXCEPT !.pc = "wrap", !.font_size = font_size,
                                    !.font = FindUnicodeFont(font_size)]
    /\ UNCHANGED BannerInputs

\* lines 254-266
BannerWrap ==
    /\ banner.pc = "wrap"
    /\ LET img_w == video_size[1]
           margin == Margin(img_w)
           max_line_width == MaxLineWidth(img_w, margin)
       IN  banner' = [banner EXCEPT
                         !.pc = "layer", !.margin = margin,
                         !.max_line_width = max_line_width,
                         !.lines = WrapLines(banner.text, banner.font,
                                             max_line_width)]
    /\ UNCHANGED BannerInputs

\* lines 269-274
BannerTextLayer ==
    /\ banner.pc = "layer"
    /\ banner' = [banner EXCEPT !.pc = "draw",
                                !.line_step = LineStep(banner.font),
                                !.stroke_w = StrokeW(banner.font)]
    /\ UNCHANGED BannerInputs

\* the line the for loop of line 276 is at
CurLine == banner.lines[Len(banner.drawn) + 1]

\* lines 277-281 and 284: the line is drawn with its stroke
BannerDrawStroked ==
    /\ banner.pc = "draw"
    /\ Len(banner.drawn) < Len(banner.lines)
    /\ font_host.stroke_ok
    /\ CanEncode(banner.font, CurLine)
    /\ banner' = [banner EXCEPT
                     !.drawn = Append(@, [text |-> CurLine,
                                          stroke |-> banner.stroke_w])]
    /\ UNCHANGED BannerInputs

\* lines 282-284: stroke_width is not accepted (TypeError), plain fill
BannerDrawPlain ==
    /\ banner.pc = "draw"
    /\ Len(banner.drawn) < Len(banner.lines)
    /\ ~font_host.stroke_ok
    /\ CanEncode(banner.font, CurLine)
    /\ banner' = [banner EXCEPT
                     !.drawn = Append(@, [text |-> CurLine, stroke |-> 0])]
    /\ UNCHANGED BannerInputs

\* lines 280-283: tdraw.text gets the line as it is; the font cannot encode
\* it and neither except clause takes UnicodeEncodeError
BannerDrawFails ==
    /\ banner.pc = "draw"
    /\ Len(banner.drawn) < Len(banner.lines)
    /\ ~CanEncode(banner.font, CurLine)
    /\ banner' = [banner EXCEPT !.pc = "raised", !.exc = "UnicodeEncodeError"]
    /\ UNCHANGED BannerInputs

\* lines 287-289
BannerSave ==
    /\ banner.pc = "draw"
    /\ Len(banner.drawn) = Len(banner.lines)
    /\ banner' = [banner EXCEPT !.pc = "saved", !.saved = TRUE]
    /\ UNCHANGED BannerInputs

NextBanner ==
    \/ GenerateLayout
    \/ BannerBackground
    \/ BannerFont
    \/ BannerWrap
    \/ BannerTextLayer
    \/ BannerDrawStroked
    \/ BannerDrawPlain
    \/ BannerDrawFails
    \/ BannerSave

\* hosts: which candidates load, what the built-in font is, what
\* ImageDraw.text accepts, and two width measures
FontHosts ==
    {[loadable |-> l, default_size |-> 10, default_unicode |-> u,
      stroke_ok |-> k, glyph |-> PlainHost.glyph] :
        l \in {{}, {4}, {7, 8}}, u \in BOOLEAN, k \in BOOLEAN}

ProportionalGlyphs ==
    [c \in BannerChars |-> IF c = "b" THEN 2 ELSE IF c = " " THEN 0 ELSE 1]

WrapHosts == {PlainHost, [PlainHost EXCEPT !.glyph = ProportionalGlyphs]}

\* widths whose line budget is 0..MaxLineBudget glyph units, and one below
WrapWidths == {0} \cup {32 + b : b \in 0..MaxLineBudget}

StyleRatios == {Rat(0 - 1, 2), RInt(0), RInt(3)}

Styles ==
    {[banner_ratio |-> a, bottom_margin_ratio |-> b, side_margin_ratio |-> c,
      font_height_ratio |-> d, stroke_ratio |-> e] :
        a \in StyleRatios \cup {DefaultStyle.banner_ratio},
        b \in StyleRatios \cup {DefaultStyle.bottom_margin_ratio},
        c \in StyleRatios \cup {DefaultStyle.side_margin_ratio},
        d \in StyleRatios \cup {DefaultStyle.font_height_ratio},
        e \in StyleRatios \cup {DefaultStyle.stroke_ratio}}

VideoWidths == {0, 100, 1080}

\* 40 is lower than the floor of the banner height
VideoHeights == {0, 40, 100, 1920}

FallbackTexts ==
    {<<"a">>, <<"u4e2d">>, <<"a", " ", "u4e2d">>, <<"u2013", "a">>,
     <<"a", " ", "b">>}

InitBanner ==
    /\ OverlayIdle
    /\ EngineIdle
    /\ PairIdle
    /\ FurtherIdle
    /\ banner = BannerLocals("start")
    /\ \/ /\ banner_text \in TextsUpTo(MaxBannerLen)
          /\ video_size \in {<<w, 1920>> : w \in WrapWidths}
          /\ style = DefaultStyle
          /\ font_host \in WrapHosts
       \/ /\ banner_text = <<"a", " ", "b">>
          /\ video_size \in VideoWidths \X VideoHeights
          /\ style \in Styles
          /\ font_host = PlainHost
       \/ /\ banner_text \in FallbackTexts
          /\ video_size = <<1080, 1920>>
          /\ style = DefaultStyle
          /\ font_host \in FontHosts

SpecBanner == InitBanner /\ [][NextBanner]_vars

\* the wrap loop of the banner has run
Wrapped == banner.pc \in {"layer", "draw", "saved", "raised"}

\* C13: every line the greedy wrap loop of _create_text_image produces
\* either measures at most max_line_width or is a single word, and the lines
\* joined by single spaces hold exactly the words of the text, in order; for
\* every text, every width budget and measures that do not decrease when a
\* word is appended.
C13_WrapFits ==
    Wrapped =>
        /\ \A k \in 1..Len(banner.lines) :
              LET ln == banner.lines[k]
              IN  /\ ln = Join(Split(ln))
                  /\ Split(ln) # <<>>
                  /\ \/ SafeTextLength(ln, banner.font) <= banner.max_line_width
                     \/ Len(Split(ln)) = 1
        /\ Split(Join(banner.lines)) = Split(banner.text)

\* two lines, of which one fits and one is a single word wider than the budget
C13_Witness ==
    /\ Wrapped
    /\ Len(banner.lines) = 2
    /\ \E k \in 1..2 :
          SafeTextLength(banner.lines[k], banner.font) <= banner.max_line_width
    /\ \E k \in 1..2 :
          SafeTextLength(banner.lines[k], banner.font) > banner.max_line_width

\* a line of two words that fits, the third word wrapped to the next line
C13_WitnessWrapped ==
    /\ Wrapped
    /\ Len(banner.lines) = 2
    /\ Len(Split(banner.lines[1])) = 2

\* C15: _create_text_image never raises because of a missing font, an
\* unsupported stroke primitive or a character the font cannot encode; it
\* falls back and reaches the final save, while measuring and while drawing.
C15_BannerNeverRaises == banner.exc = "none"

\* the fallbacks that do work: built-in font, plain fill, ASCII measure
C15_FallbacksTaken ==
    /\ banner.pc = "saved"
    /\ banner.font.kind = "default"
    /\ ~font_host.stroke_ok
    /\ \E k \in 1..Len(banner.text) : banner.text[k] = "u4e2d"

\* C19: for every video width and height and every style ratio, zero and
\* negative included, the resolved pixel values are at or above their
\* floors: banner height >= 50, bottom margin >= 8, corner radius >= 10,
\* font size >= 18, side margin >= 16, stroke width >= 1.
C19_PixelFloors ==
    /\ banner.pc \notin {"off", "start"} =>
          banner.box_h >= 50 /\ banner.bottom_margin >= 8
    /\ banner.pc \notin {"off", "start", "image"} => banner.radius >= 10
    /\ banner.pc \notin {"off", "start", "image", "font"} =>
          banner.font_size >= 18
    /\ Wrapped => banner.margin >= 16
    /\ banner.pc \in {"draw", "saved", "raised"} => banner.stroke_w >= 1

\* a banner saved for a video of height 0 with negative ratios: every value
\* is its floor
C19_Witness ==
    /\ banner.pc = "saved"
    /\ video_size = <<0, 0>>
    /\ style.banner_ratio = Rat(0 - 1, 2)
    /\ style.font_height_ratio = Rat(0 - 1, 2)
    /\ style.stroke_ratio = RInt(0)
    /\ banner.box_h = 50
    /\ banner.font_size = 18
    /\ banner.stroke_w = 1

-----------------------------------------------------------------------------
(* SocialContentEngine.process_document, src/social_content_engine/main.py
   lines 65-93, with the create_final_video call of line 88 running as the
   actions of VideoOverlay above *)

\* the methods class CTAAdder defines, add_cta.py lines 13-14
CTAAdderMethods == {"add"}

\* the default of output_file, add_cta.py line 15
CtaDefaultOutput == Path("final_video_with_cta", "mp4")

\* output_video_file of the engine, test.py line 18
OutputVideoFile == Path("final_video_with_cta_mode", "mp4")

\* what PDFProcessor.extract_text may return
ExtractedTexts == {<<>>, <<"a">>}

\* (subtitle_mode or cfg_mode or env_mode or "wordcount").lower(), line 43
NormalizeEngineMode(m) ==
    CASE m = NoneValue -> "wordcount"
      [] m = "WORDCOUNT" -> "wordcount"
      [] OTHER -> m

\* line 56: words_per_line when no source gives one
DefaultWordsPerLine == 5

\* the subtitle_mode argument, None when not given
ArgMode(p) == IF p.arg_mode.kind = "none" THEN NoneValue ELSE p.arg_mode.val

\* lines 36-41: cfg_mode, None when Config has no getter or the getter raises
CfgMode(p) ==
    CASE p.cfg_mode.kind \in {"absent", "raises"} -> NoneValue
      [] p.cfg_mode.kind = "none" -> ""
      [] OTHER -> Lower(p.cfg_mode.val)

\* line 42: (os.getenv("SUBTITLE_MODE") or "").lower()
EnvMode(p) == IF p.env_mode.kind = "none" THEN "" ELSE Lower(p.env_mode.val)

\* a resolution that lets the environment win over the argument
ResolveModeEnvFirst(p) ==
    Lower(IF Truthy(EnvMode(p)) THEN EnvMode(p)
          ELSE IF Truthy(CfgMode(p)) THEN CfgMode(p)
          ELSE IF Truthy(ArgMode(p)) THEN ArgMode(p)
          ELSE "wordcount")

\* line 43: (subtitle_mode or cfg_mode or env_mode or "wordcount").lower()
ResolveMode(p) ==
    Lower(IF Truthy(ArgMode(p)) THEN ArgMode(p)
          ELSE IF Truthy(CfgMode(p)) THEN CfgMode(p)
          ELSE IF Truthy(EnvMode(p)) THEN EnvMode(p)
          ELSE "wordcount")

\* lines 45-50: cfg_wpl, None unless the getter exists and int() accepts
\* what it returns
CfgWpl(p) == IF p.cfg_wpl.kind = "int" THEN p.cfg_wpl ELSE Pref("none", 0)

\* lines 51-55: env_wpl, None when unset or when int() raises ValueError
EnvWpl(p) == IF p.env_wpl.kind = "int" THEN p.env_wpl ELSE Pref("none", 0)

\* line 56
ResolveWpl(p) ==
    IF p.arg_wpl.kind # "none" THEN p.arg_wpl.val
    ELSE IF CfgWpl(p).kind # "none" THEN CfgWpl(p).val
    ELSE IF EnvWpl(p).kind # "none" THEN EnvWpl(p).val
    ELSE DefaultWordsPerLine

\* SocialContentEngine.__init__, lines 26-63
InitEngine ==
    /\ OverlayIdle
    /\ BannerIdle
    /\ PairIdle
    /\ eng_pc = "idle"
    /\ eng_subtitle_mode \in {NormalizeEngineMode(m) : m \in ModeArgs}
    /\ eng_words_per_line \in 1..MaxWpl
    /\ eng_prefs = [NoPrefs EXCEPT !.arg_mode = Pref("value", eng_subtitle_mode),
                                   !.arg_wpl = Pref("int", eng_words_per_line)]
    /\ GenIdle
    /\ chunk_loop = ChunkLocals("off")
    /\ CleanupIdle
    /\ eng_stages = <<>>
    /\ extracted_text = <<>>
    /\ generated_content = <<>>
    /\ eng_exc = NoExc
    /\ eng_result = NoPath
    /\ eng_files = {}

\* one stage of process_document and how it ended
Stage(name, outcome) == <<name, outcome>>

\* a guard that lets an empty extraction through
TextMissingNever(t) == FALSE

\* line 68: if not extracted_text
TextMissing(t) == t = <<>>

\* no process_document call is running
EngineAtRest == eng_pc \in {"idle", "returned", "raised"}

\* process_document raises; its locals are gone
EngineRaise(type, at) ==
    /\ eng_exc' = [type |-> type, at |-> at]
    /\ eng_pc' = "raised"
    /\ extracted_text' = <<>>
    /\ generated_content' = <<>>

\* line 67: self.pdf_processor.extract_text(pdf_path)
EngineExtract ==
    /\ EngineAtRest
    /\ \E t \in ExtractedTexts : extracted_text' = t
    /\ generated_content' = <<>>
    /\ eng_exc' = NoExc
    /\ eng_result' = NoPath
    /\ eng_pc' = "extracted"
    /\ eng_stages' = <<Stage("extract", "returned")>>
    /\ UNCHANGED <<eng_subtitle_mode, eng_words_per_line, eng_files,
                   OverlayVars, BannerVars, PairVars, Further>>

\* pdf_processor.py lines 26-28
EngineExtractFails ==
    /\ EngineAtRest
    /\ EngineRaise("RuntimeError", "extract")
    /\ eng_stages' = <<Stage("extract", "raised")>>
    /\ eng_result' = NoPath
    /\ UNCHANGED <<eng_subtitle_mode, eng_words_per_line, eng_files,
                   OverlayVars, BannerVars, PairVars, Further>>

\* lines 68-69
EngineNoText ==
    /\ eng_pc = "extracted"
    /\ TextMissing(extracted_text)
    /\ EngineRaise("ValueError", "no_text")
    /\ UNCHANGED <<eng_stages, eng_subtitle_mode, eng_words_per_line, eng_result,
                   eng_files, OverlayVars, BannerVars, PairVars, Further>>

\* line 72: self.content_generator.generate_content(extracted_text)
EngineGenerate ==
    /\ eng_pc = "extracted"
    /\ ~TextMissing(extracted_text)
    /\ \E t \in ScriptTexts : generated_content' = t
    /\ eng_pc' = "generated"
    /\ eng_stages' = Append(eng_stages, Stage("generate", "returned"))
    /\ UNCHANGED <<eng_subtitle_mode, eng_words_per_line, extracted_text,
                   eng_exc, eng_result, eng_files, OverlayVars, BannerVars,
                   PairVars, Further>>

EngineGenerateFails ==
    /\ eng_pc = "extracted"
    /\ ~TextMissing(extracted_text)
    /\ EngineRaise("RuntimeError", "generate")
    /\ eng_stages' = Append(eng_stages, Stage("generate", "raised"))
    /\ UNCHANGED <<eng_subtitle_mode, eng_words_per_line, eng_result,
                   eng_files, OverlayVars, BannerVars, PairVars, Further>>

\* lines 80-83: the mode handed to the overlay
EngineMode ==
    IF eng_subtitle_mode = "manual" /\ subtitles = <<>>
    THEN "wordcount"
    ELSE eng_subtitle_mode

\* lines 75-87: speech synthesis, then the overlay is given the new audio,
\* the script, the mode and words_per_line
EngineSpeak ==
    /\ eng_pc = "generated"
    /\ \E d \in AudioDurations : audio_duration' = d
    /\ script_text' = generated_content
    /\ subtitle_mode' = NormalizeMode(EngineMode)
    /\ words_per_line' = eng_words_per_line
    /\ pc' = "idle"
    /\ FrameReset
    /\ eng_pc' = "render"
    /\ eng_stages' = Append(eng_stages, Stage("speak", "returned"))
    /\ UNCHANGED <<subtitles, supplied_subs, keep_sub_images, tmp_dir,
                   tmp_images, video_duration, fp_delta, asr_output, max_chars,
                   eng_subtitle_mode, eng_words_per_line, extracted_text,
                   generated_content, eng_exc, eng_result, eng_files,
                   BannerVars, PairVars, Further>>

\* lines 75-76: gTTS or the audio write raises
EngineSpeakFails ==
    /\ eng_pc = "generated"
    /\ EngineRaise("RuntimeError", "speak")
    /\ eng_stages' = Append(eng_stages, Stage("speak", "raised"))
    /\ UNCHANGED <<eng_subtitle_mode, eng_words_per_line, eng_result,
                   eng_files, OverlayVars, BannerVars, PairVars, Further>>

\* line 88: self.video_overlay.create_final_video(self.output_video_file)
EngineOpenVideo == eng_pc = "render" /\ pc = "idle" /\ OpenVideo

EngineOpenVideoFails == eng_pc = "render" /\ pc = "idle" /\ OpenVideoFails

\* line 88 has returned
EngineRendered ==
    /\ eng_pc = "render"
    /\ pc = "returned"
    /\ eng_files' = eng_files \cup {OutputVideoFile}
    /\ eng_pc' = "cta"
    /\ eng_stages' = Append(eng_stages, Stage("render", "returned"))
    /\ pc' = "idle"
    /\ FrameReset
    /\ UNCHANGED <<ObjectVars, supplied_subs, MediaVars, eng_subtitle_mode,
                   eng_words_per_line, extracted_text, generated_content,
                   eng_exc, eng_result, BannerVars, PairVars, Further>>

\* line 88 has raised: the exception leaves process_document
EngineRenderFailed ==
    /\ eng_pc = "render"
    /\ pc = "raised"
    /\ eng_exc' = [type |-> exc.type, at |-> "render"]
    /\ eng_pc' = "raised"
    /\ eng_stages' = Append(eng_stages, Stage("render", "raised"))
    /\ extracted_text' = <<>>
    /\ generated_content' = <<>>
    /\ pc' = "idle"
    /\ FrameReset
    /\ UNCHANGED <<ObjectVars, supplied_subs, MediaVars, eng_subtitle_mode,
                   eng_words_per_line, eng_result, eng_files, BannerVars,
                   PairVars, Further>>

\* lines 91-93: self.cta_adder.add_cta(self.output_video_file, self.cta_text);
\* CTAAdder.add writes output_file and returns it
EngineCta ==
    /\ eng_pc = "cta"
    /\ IF "add_cta" \in CTAAdderMethods
       THEN /\ eng_files' = eng_files \cup {CtaDefaultOutput}
            /\ eng_result' = CtaDefaultOutput
            /\ eng_pc' = "returned"
            /\ extracted_text' = <<>>
            /\ generated_content' = <<>>
            /\ eng_stages' = Append(eng_stages, Stage("cta", "returned"))
            /\ UNCHANGED eng_exc
       ELSE /\ EngineRaise("AttributeError", "cta")
            /\ eng_stages' = Append(eng_stages, Stage("cta", "raised"))
            /\ UNCHANGED <<eng_files, eng_result>>
    /\ UNCHANGED <<eng_subtitle_mode, eng_words_per_line, OverlayVars,
                   BannerVars, PairVars, Further>>

\* manual segments set on engine.video_overlay between two documents
EngineManualSegments == EngineAtRest /\ UpdateAudioAndSubtitles

NextEngine ==
    \/ EngineManualSegments
    \/ EngineExtract
    \/ EngineExtractFails
    \/ EngineNoText
    \/ EngineGenerate
    \/ EngineGenerateFails
    \/ EngineSpeak
    \/ EngineSpeakFails
    \/ EngineOpenVideo
    \/ EngineOpenVideoFails
    \/ BuildNothing
    \/ BuildWordcount
    \/ BuildWordcountNoAudio
    \/ BuildAsrNoBackend
    \/ BuildAsrBackendFails
    \/ BuildAsr
    \/ OpenAudio
    \/ OpenAudioFails
    \/ EnterGenerate
    \/ EnterGenerateFails
    \/ LoopSkip
    \/ LoopRender
    \/ LoopBannerFails
    \/ LoopClipFails
    \/ LoopReturn
    \/ Composite
    \/ CompositeFails
    \/ WriteVideo
    \/ WriteVideoFails
    \/ Finally
    \/ EngineRendered
    \/ EngineRenderFailed
    \/ EngineCta

SpecEngine == InitEngine /\ [][NextEngine]_vars

\* C16: for each subtitle mode, when extraction, script generation, speech
\* synthesis and rendering have succeeded, process_document runs the CTA step
\* and returns a path ending in '.mp4' that names an existing file; it raises
\* only for a failure of one of those four stages.
C16_PipelineReturnsVideo ==
    /\ eng_pc = "raised" =>
          eng_exc.at \in {"extract", "no_text", "generate", "speak", "render"}
    /\ eng_pc = "returned" =>
          eng_result.ext = "mp4" /\ eng_result \in eng_files

-----------------------------------------------------------------------------
(* Two invocations of create_final_video that overlap in time, on one
   VideoOverlay or on two: the temporary directory of lines 183-186 and its
   removal at lines 106-109 *)

MaxPairImages == 2   \* banners one invocation renders

PairOthers == <<OverlayVars, BannerVars, EngineVars, Further>>

InitPair ==
    /\ OverlayIdle
    /\ BannerIdle
    /\ EngineIdle
    /\ FurtherIdle
    /\ inv_obj \in [Invocations -> Instances]
    /\ inv_pc = [i \in Invocations |-> "idle"]
    /\ inv_tmpdir = [i \in Invocations |-> 0]
    /\ inv_images = [i \in Invocations |-> 0]
    /\ obj_tmp_dir = [o \in Instances |-> 0]
    /\ obj_keep \in [Instances -> BOOLEAN]
    /\ pair_dirs = {}
    /\ pair_files = {}

\* lines 69-90: the call opens its clips and enters _generate_dynamic_subtitles
PairStart(i) ==
    /\ inv_pc[i] = "idle"
    /\ inv_pc' = [inv_pc EXCEPT ![i] = "ensure"]
    /\ UNCHANGED <<inv_obj, inv_tmpdir, inv_images, obj_tmp_dir, obj_keep,
                   pair_dirs, pair_files, PairOthers>>

\* lines 184-186 and 193: mkdtemp only when self._tmp_dir is unset; the
\* directory minted by invocation i is named i
PairEnsureTmpdir(i) ==
    /\ inv_pc[i] = "ensure"
    /\ LET o == inv_obj[i]
           dir == IF obj_tmp_dir[o] = 0 THEN i ELSE obj_tmp_dir[o]
       IN  /\ obj_tmp_dir' = [obj_tmp_dir EXCEPT ![o] = dir]
           /\ pair_dirs' = IF obj_tmp_dir[o] = 0 THEN pair_dirs \cup {dir}
                           ELSE pair_dirs
           /\ inv_tmpdir' = [inv_tmpdir EXCEPT ![i] = dir]
    /\ inv_pc' = [inv_pc EXCEPT ![i] = "loop"]
    /\ UNCHANGED <<inv_obj, inv_images, obj_keep, pair_files, PairOthers>>

\* lines 197-199: one banner image saved into tmpdir
PairRenderImage(i) ==
    /\ inv_pc[i] = "loop"
    /\ inv_images[i] < MaxPairImages
    /\ inv_tmpdir[i] \in pair_dirs
    /\ pair_files' = pair_files \cup {<<inv_tmpdir[i], i, inv_images[i] + 1>>}
    /\ inv_images' = [inv_images EXCEPT ![i] = @ + 1]
    /\ UNCHANGED <<inv_obj, inv_pc, inv_tmpdir, obj_tmp_dir, obj_keep,
                   pair_dirs, PairOthers>>

\* line 289: final.save into a directory that is no longer there raises
PairRenderFails(i) ==
    /\ inv_pc[i] = "loop"
    /\ inv_images[i] < MaxPairImages
    /\ inv_tmpdir[i] \notin pair_dirs
    /\ inv_pc' = [inv_pc EXCEPT ![i] = "finally"]
    /\ UNCHANGED <<inv_obj, inv_tmpdir, inv_images, obj_tmp_dir, obj_keep,
                   pair_dirs, pair_files, PairOthers>>

\* lines 206 and 91: the clips are returned and composited
PairLoopReturn(i) ==
    /\ inv_pc[i] = "loop"
    /\ inv_pc' = [inv_pc EXCEPT ![i] = "write"]
    /\ UNCHANGED <<inv_obj, inv_tmpdir, inv_images, obj_tmp_dir, obj_keep,
                   pair_dirs, pair_files, PairOthers>>

\* line 92: write_videofile
PairWrite(i) ==
    /\ inv_pc[i] = "write"
    /\ inv_pc' = [inv_pc EXCEPT ![i] = "finally"]
    /\ UNCHANGED <<inv_obj, inv_tmpdir, inv_images, obj_tmp_dir, obj_keep,
                   pair_dirs, pair_files, PairOthers>>

\* lines 106-109: rmtree of self._tmp_dir, then self._tmp_dir = None
PairFinally(i) ==
    /\ inv_pc[i] = "finally"
    /\ LET o == inv_obj[i]
           dir == obj_tmp_dir[o]
       IN  /\ IF dir # 0 /\ dir \in pair_dirs /\ ~obj_keep[o]
              THEN /\ pair_dirs' = pair_dirs \ {dir}
                   /\ pair_files' = {f \in pair_files : f[1] # dir}
              ELSE UNCHANGED <<pair_dirs, pair_files>>
           /\ obj_tmp_dir' = [obj_tmp_dir EXCEPT ![o] = 0]
    /\ inv_pc' = [inv_pc EXCEPT ![i] = "done"]
    /\ UNCHANGED <<inv_obj, inv_tmpdir, inv_images, obj_keep, PairOthers>>

NextPair ==
    \E i \in Invocations :
        \/ PairStart(i)
        \/ PairEnsureTmpdir(i)
        \/ PairRenderImage(i)
        \/ PairRenderFails(i)
        \/ PairLoopReturn(i)
        \/ PairWrite(i)
        \/ PairFinally(i)

SpecPair == InitPair /\ [][NextPair]_vars

\* the invocation holds a temporary directory and still reads or writes it
PairUsing(i) == inv_pc[i] \in {"loop", "write"}

\* C17: the temporary directory of an invocation is its own: two invocations
\* that overlap, on two VideoOverlay instances or on one, use different
\* directories, and the directory and images of a running invocation are
\* not deleted by the cleanup of another.
C17_TmpDirExclusive ==
    \A i \in Invocations :
        PairUsing(i) =>
            /\ \A j \in Invocations \ {i} :
                  PairUsing(j) => inv_tmpdir[j] # inv_tmpdir[i]
            /\ inv_tmpdir[i] \in pair_dirs
            /\ \A k \in 1..inv_images[i] :
                  <<inv_tmpdir[i], i, k>> \in pair_files

\* process_document called again and again on one engine whose overlay is
\* never handed manual segments; the segments are then those of the builders
\* and none of them is dropped by the loop of line 196
NextStages ==
    \/ EngineExtract
    \/ EngineExtractFails
    \/ EngineNoText
    \/ EngineGenerate
    \/ EngineGenerateFails
    \/ EngineSpeak
    \/ EngineSpeakFails
    \/ EngineOpenVideo
    \/ EngineOpenVideoFails
    \/ BuildNothing
    \/ BuildWordcount
    \/ BuildWordcountNoAudio
    \/ BuildAsrNoBackend
    \/ BuildAsrBackendFails
    \/ BuildAsr
    \/ OpenAudio
    \/ OpenAudioFails
    \/ EnterGenerate
    \/ EnterGenerateFails
    \/ LoopRender
    \/ LoopBannerFails
    \/ LoopClipFails
    \/ LoopReturn
    \/ Composite
    \/ CompositeFails
    \/ WriteVideo
    \/ WriteVideoFails
    \/ Finally
    \/ EngineRendered
    \/ EngineRenderFailed
    \/ EngineCta

SpecStages == InitEngine /\ [][NextStages]_vars

\* the stages of process_document in the order of lines 67-91
StageOrder == <<"extract", "generate", "speak", "render", "cta">>

\* the first n stages have all returned
StagesReturned(n) == [k \in 1..n |-> Stage(StageOrder[k], "returned")]

\* C28: process_document invokes its stages in the order extract, generate,
\* speak, render, cta, each only after the one before it has returned; an
\* empty extraction raises ValueError with only the extraction invoked; a
\* stage that raised is the last stage invoked.
C28_StagesInOrder ==
    /\ Len(eng_stages) <= Len(StageOrder)
    /\ \A k \in 1..Len(eng_stages) :
          /\ eng_stages[k][1] = StageOrder[k]
          /\ k < Len(eng_stages) => eng_stages[k][2] = "returned"
    /\ pc # "idle" => eng_pc = "render" /\ eng_stages = StagesReturned(3)
    /\ (eng_pc = "raised" /\ eng_exc.at = "no_text") =>
          eng_exc.type = "ValueError" /\ eng_stages = StagesReturned(1)
    /\ (eng_pc = "raised" /\ eng_exc.at # "no_text") =>
          eng_stages[Len(eng_stages)][2] = "raised"
    /\ eng_pc \in {"generated", "render", "cta"} =>
          extracted_text # <<>> /\ eng_stages = StagesReturned(Len(eng_stages))
    /\ eng_pc = "returned" => eng_stages = StagesReturned(5)

C28_Witness ==
    /\ eng_pc = "raised"
    /\ eng_exc.at = "cta"
    /\ eng_stages = Append(StagesReturned(4), Stage("cta", "raised"))
    /\ OutputVideoFile \in eng_files

-----------------------------------------------------------------------------
(* The subtitle preferences of SocialContentEngine: __init__ lines 35-56
   resolves them, process_document lines 78-88 hands them to the overlay *)

\* what the three sources of the mode may hold
ModePrefs ==
    {[NoPrefs EXCEPT !.arg_mode = a, !.cfg_mode = c, !.env_mode = e] :
        a \in {Pref("none", ""), Pref("value", ""), Pref("value", "Manual")},
        c \in {Pref("absent", ""), Pref("raises", ""), Pref("none", ""),
               Pref("value", "karaoke")},
        e \in {Pref("none", ""), Pref("value", "ASR")}}

\* what the three sources of words_per_line may hold; "text" is a value
\* int() does not accept
WplPrefs ==
    {[NoPrefs EXCEPT !.arg_wpl = a, !.cfg_wpl = c, !.env_wpl = e] :
        a \in {Pref("none", 0), Pref("int", 0), Pref("int", 2)},
        c \in {Pref("absent", 0), Pref("raises", 0), Pref("int", 1)},
        e \in {Pref("none", 0), Pref("text", 0), Pref("int", 3)}}

\* SocialContentEngine.__init__, lines 26-63
InitPrefs ==
    /\ OverlayIdle
    /\ BannerIdle
    /\ PairIdle
    /\ GenIdle
    /\ chunk_loop = ChunkLocals("off")
    /\ CleanupIdle
    /\ eng_prefs \in ModePrefs \cup WplPrefs
    /\ eng_subtitle_mode = ResolveMode(eng_prefs)
    /\ eng_words_per_line = ResolveWpl(eng_prefs)
    /\ eng_pc = "idle"
    /\ extracted_text = <<>>
    /\ generated_content = <<>>
    /\ eng_exc = NoExc
    /\ eng_result = NoPath
    /\ eng_files = {}
    /\ eng_stages = <<>>

SpecPrefs == InitPrefs /\ [][NextStages]_vars

\* the sources of the mode in priority order, each lower-cased, "" when the
\* source gives nothing
ModeSources(p) ==
    <<IF p.arg_mode.kind = "value" THEN Lower(p.arg_mode.val) ELSE "",
      IF p.cfg_mode.kind = "value" THEN Lower(p.cfg_mode.val) ELSE "",
      IF p.env_mode.kind = "value" THEN Lower(p.env_mode.val) ELSE "",
      "wordcount">>

\* the sources of words_per_line in priority order, <<>> when the source
\* gives no integer
WplSources(p) ==
    <<IF p.arg_wpl.kind = "int" THEN <<p.arg_wpl.val>> ELSE <<>>,
      IF p.cfg_wpl.kind = "int" THEN <<p.cfg_wpl.val>> ELSE <<>>,
      IF p.env_wpl.kind = "int" THEN <<p.env_wpl.val>> ELSE <<>>,
      <<5>>>>

\* the first source that gives something
FirstGiven(sources, nothing) ==
    sources[CHOOSE k \in 1..Len(sources) :
                /\ sources[k] # nothing
                /\ \A j \in 1..(k - 1) : sources[j] = nothing]

\* C30: the engine's subtitle_mode and words_per_line are those of the first
\* of constructor argument, Config getter, environment variable and default
\* ('wordcount', 5) that gives a value, a WORDS_PER_LINE that is no integer
\* giving none; and while create_final_video runs inside process_document
\* the overlay's mode and words_per_line are these values, with 'manual'
\* replaced by 'wordcount' when the overlay held no segments.
C30_PreferencesResolved ==
    /\ eng_subtitle_mode = FirstGiven(ModeSources(eng_prefs), "")
    /\ eng_words_per_line = FirstGiven(WplSources(eng_prefs), <<>>)[1]
    /\ (eng_pc = "render" /\ pc # "idle") =>
          /\ words_per_line = eng_words_per_line
          /\ subtitle_mode =
                IF eng_subtitle_mode = "manual" /\ EmptyAtCallStart
                THEN "wordcount"
                ELSE eng_subtitle_mode

\* the environment alone names the mode, and the render runs with it
C30_Witness ==
    /\ eng_prefs.arg_mode = Pref("value", "")
    /\ eng_prefs.cfg_mode.kind = "raises"
    /\ eng_prefs.env_mode = Pref("value", "ASR")
    /\ eng_pc = "render"
    /\ pc = "write"
    /\ subtitle_mode = "asr"
    /\ built_by = "asr"

\* a WORDS_PER_LINE that is no integer is passed over for the default
C30_WitnessWpl ==
    /\ eng_prefs.arg_wpl.kind = "none"
    /\ eng_prefs.cfg_wpl.kind = "raises"
    /\ eng_prefs.env_wpl.kind = "text"
    /\ eng_pc = "render"
    /\ pc = "write"
    /\ words_per_line = 5
    /\ built_by = "wordcount"

\* the second document of an engine in manual mode: the segments built for
\* the first are still there, and the render runs in manual mode
C30_WitnessManual ==
    /\ eng_subtitle_mode = "manual"
    /\ eng_pc = "render"
    /\ pc = "write"
    /\ subtitle_mode = "manual"
    /\ built_by = "none"

-----------------------------------------------------------------------------
(* AIContentGenerator (content_generation/ai_content_generator.py):
   construction, and generate_content called again and again; every call
   meets the two endpoints in some condition *)

Providers == {"auto", "openai", "gemini"}

\* the provider argument and AI_PROVIDER as a caller may write them
ProviderArgs == {NoneValue, "", "auto", "openai", "gemini", "OpenAI", "claude"}

EnvProviders == {NoneValue, "", "GEMINI", "openai", "claude"}

\* a key: None, empty or set
ApiKeys == {NoneValue, "", "key"}

\* openai.chat.completions.create returns, or raises the quota error, or
\* raises another exception
OpenaiAnswers == {"ok", "quota", "error"}

\* requests.post raises, or the status is an error, or the answer carries
\* no text, or it carries text
GeminiAnswers == {"ok", "http_error", "no_text", "timeout"}

\* the provider named by the caller, kept as written
ProviderAsGiven(arg, env) ==
    IF Truthy(arg) THEN arg ELSE Lower(IF env = NoneValue THEN "auto" ELSE env)

\* lines 36-39: provider or os.getenv("AI_PROVIDER", "auto").lower(), and
\* "auto" for a value that is none of the three
NormalizeProvider(arg, env) ==
    LET given == IF Truthy(arg) THEN arg
                 ELSE Lower(IF env = NoneValue THEN "auto" ELSE env)
    IN  IF given \in Providers THEN given ELSE "auto"

\* __init__, lines 32-39
InitGen ==
    /\ OverlayIdle
    /\ BannerIdle
    /\ EngineIdle
    /\ PairIdle
    /\ eng_prefs = NoPrefs
    /\ chunk_loop = ChunkLocals("off")
    /\ CleanupIdle
    /\ provider_arg \in ProviderArgs
    /\ env_ai_provider \in EnvProviders
    /\ provider = NormalizeProvider(provider_arg, env_ai_provider)
    /\ openai_api_key \in ApiKeys
    /\ gemini_api_key \in ApiKeys
    /\ openai_service = "ok"
    /\ gemini_service = "ok"
    /\ gen_pc = "idle"
    /\ provider_calls = <<>>
    /\ gen_exc = NoExc

GenOthers ==
    <<OverlayVars, BannerVars, EngineVars, PairVars, eng_prefs, chunk_loop,
      CleanupVars>>

GenFields ==
    <<provider_arg, env_ai_provider, provider, openai_api_key, gemini_api_key>>

\* no generate_content call is running
GenAtRest == gen_pc \in {"idle", "returned", "raised"}

\* a check that finds no OpenAI key whatever the object holds
OpenaiConfiguredNever == FALSE

\* lines 75 and 86: self.openai_api_key is set
OpenaiConfigured == Truthy(openai_api_key)

\* lines 80, 94 and 98: self.gemini_api_key is set
GeminiConfigured == Truthy(gemini_api_key)

GenRaise(type, at) ==
    /\ gen_exc' = [type |-> type, at |-> at]
    /\ gen_pc' = "raised"

\* lines 103-116: _generate_openai ends the call of a single-provider mode
OpenaiEnds ==
    IF openai_service = "ok"
    THEN gen_pc' = "returned" /\ UNCHANGED gen_exc
    ELSE GenRaise("OpenAIError", "openai")

\* lines 118-150: _generate_gemini ends the call
GeminiEnds ==
    CASE gemini_service = "ok" -> gen_pc' = "returned" /\ UNCHANGED gen_exc
      [] gemini_service = "timeout" -> GenRaise("RequestException", "gemini")
      [] OTHER -> GenRaise("RuntimeError", "gemini")

\* lines 63-71: generate_content dispatches on self.provider
GenStart ==
    /\ GenAtRest
    /\ openai_service' \in OpenaiAnswers
    /\ gemini_service' \in GeminiAnswers
    /\ provider_calls' = <<>>
    /\ gen_exc' = NoExc
    /\ gen_pc' = CASE provider = "openai" -> "openai_only"
                   [] provider = "gemini" -> "gemini_only"
                   [] OTHER -> "auto"
    /\ UNCHANGED <<GenFields, GenOthers>>

\* lines 75-76
GenOpenaiOnlyNoKey ==
    /\ gen_pc = "openai_only"
    /\ ~OpenaiConfigured
    /\ GenRaise("RuntimeError", "openai_key")
    /\ UNCHANGED <<GenFields, openai_service, gemini_service, provider_calls,
                   GenOthers>>

\* line 77
GenOpenaiOnlyCall ==
    /\ gen_pc = "openai_only"
    /\ OpenaiConfigured
    /\ provider_calls' = Append(provider_calls, "openai")
    /\ OpenaiEnds
    /\ UNCHANGED <<GenFields, openai_service, gemini_service, GenOthers>>

\* lines 80-81
GenGeminiOnlyNoKey ==
    /\ gen_pc = "gemini_only"
    /\ ~GeminiConfigured
    /\ GenRaise("RuntimeError", "gemini_key")
    /\ UNCHANGED <<GenFields, openai_service, gemini_service, provider_calls,
                   GenOthers>>

\* line 82
GenGeminiOnlyCall ==
    /\ gen_pc = "gemini_only"
    /\ GeminiConfigured
    /\ provider_calls' = Append(provider_calls, "gemini")
    /\ GeminiEnds
    /\ UNCHANGED <<GenFields, openai_service, gemini_service, GenOthers>>

\* lines 86-93: OpenAI is tried; an exception is caught and logged
GenAutoOpenai ==
    /\ gen_pc = "auto"
    /\ OpenaiConfigured
    /\ provider_calls' = Append(provider_calls, "openai")
    /\ IF openai_service = "ok"
       THEN gen_pc' = "returned"
       ELSE gen_pc' = "auto_fallback"
    /\ UNCHANGED <<GenFields, openai_service, gemini_service, gen_exc,
                   GenOthers>>

\* lines 94-95
GenAutoFallbackGemini ==
    /\ gen_pc = "auto_fallback"
    /\ GeminiConfigured
    /\ provider_calls' = Append(provider_calls, "gemini")
    /\ GeminiEnds
    /\ UNCHANGED <<GenFields, openai_service, gemini_service, GenOthers>>

\* line 96
GenAutoFallbackNoGemini ==
    /\ gen_pc = "auto_fallback"
    /\ ~GeminiConfigured
    /\ GenRaise("RuntimeError", "no_fallback")
    /\ UNCHANGED <<GenFields, openai_service, gemini_service, provider_calls,
                   GenOthers>>

\* lines 98-99
GenAutoGemini ==
    /\ gen_pc = "auto"
    /\ ~OpenaiConfigured
    /\ GeminiConfigured
    /\ provider_calls' = Append(provider_calls, "gemini")
    /\ GeminiEnds
    /\ UNCHANGED <<GenFields, openai_service, gemini_service, GenOthers>>

\* line 100
GenAutoNoKeys ==
    /\ gen_pc = "auto"
    /\ ~OpenaiConfigured
    /\ ~GeminiConfigured
    /\ GenRaise("RuntimeError", "no_keys")
    /\ UNCHANGED <<GenFields, openai_service, gemini_service, provider_calls,
                   GenOthers>>

NextGen ==
    \/ GenStart
    \/ GenOpenaiOnlyNoKey
    \/ GenOpenaiOnlyCall
    \/ GenGeminiOnlyNoKey
    \/ GenGeminiOnlyCall
    \/ GenAutoOpenai
    \/ GenAutoFallbackGemini
    \/ GenAutoFallbackNoGemini
    \/ GenAutoGemini
    \/ GenAutoNoKeys

SpecGen == InitGen /\ [][NextGen]_vars

\* a generate_content call has ended
GenEnded == gen_pc \in {"returned", "raised"}

Called(p) == \E k \in 1..Len(provider_calls) : provider_calls[k] = p

\* C21: in provider mode 'auto', OpenAI is the first provider called when an
\* OpenAI key is set; Gemini is called only after the OpenAI call raised or
\* when there is no OpenAI key; each provider is called at most once per
\* generate_content; the call raises RuntimeError when OpenAI failed and no
\* Gemini key is set, and when neither key is set, then with no provider
\* called.
C21_AutoFallback ==
    provider = "auto" =>
        /\ provider_calls \in
              {<<>>, <<"openai">>, <<"gemini">>, <<"openai", "gemini">>}
        /\ (Truthy(openai_api_key) /\ (GenEnded \/ provider_calls # <<>>)) =>
              provider_calls # <<>> /\ provider_calls[1] = "openai"
        /\ Called("gemini") =>
              \/ ~Truthy(openai_api_key)
              \/ provider_calls[1] = "openai" /\ openai_service # "ok"
        /\ (GenEnded /\ Called("openai") /\ openai_service # "ok"
                /\ ~Truthy(gemini_api_key)) =>
              /\ gen_pc = "raised"
              /\ gen_exc.type = "RuntimeError"
              /\ provider_calls = <<"openai">>
        /\ (GenEnded /\ ~Truthy(openai_api_key) /\ ~Truthy(gemini_api_key)) =>
              /\ gen_pc = "raised"
              /\ gen_exc.type = "RuntimeError"
              /\ provider_calls = <<>>

\* OpenAI answers with the quota error and Gemini then delivers
C21_Witness ==
    /\ provider = "auto"
    /\ gen_pc = "returned"
    /\ openai_service = "quota"
    /\ provider_calls = <<"openai", "gemini">>

\* OpenAI failed and there is no Gemini key
C21_WitnessNoFallback ==
    /\ provider = "auto"
    /\ gen_pc = "raised"
    /\ gen_exc = [type |-> "RuntimeError", at |-> "no_fallback"]
    /\ provider_calls = <<"openai">>

\* C29: self.provider is one of auto, openai and gemini, and is 'auto' when
\* the value given is none of them; in mode 'openai' Gemini is never called
\* and in mode 'gemini' OpenAI is never called; in either mode a missing key
\* of the selected provider makes generate_content raise RuntimeError with no
\* provider called.
C29_ProviderSelection ==
    /\ provider \in Providers
    /\ LET given == IF provider_arg \notin {NoneValue, ""} THEN provider_arg
                    ELSE IF env_ai_provider = NoneValue THEN "auto"
                    ELSE Lower(env_ai_provider)
       IN  provider = IF given \in {"openai", "gemini"} THEN given ELSE "auto"
    /\ provider = "openai" =>
          /\ ~Called("gemini")
          /\ (GenEnded /\ openai_api_key \in {NoneValue, ""}) =>
                /\ gen_pc = "raised"
                /\ gen_exc.type = "RuntimeError"
                /\ provider_calls = <<>>
    /\ provider = "gemini" =>
          /\ ~Called("openai")
          /\ (GenEnded /\ gemini_api_key \in {NoneValue, ""}) =>
                /\ gen_pc = "raised"
                /\ gen_exc.type = "RuntimeError"
                /\ provider_calls = <<>>

\* mode 'gemini' from the environment, with an OpenAI key at hand that is
\* left unused
C29_Witness ==
    /\ provider_arg = NoneValue
    /\ env_ai_provider = "GEMINI"
    /\ provider = "gemini"
    /\ openai_api_key = "key"
    /\ gen_pc = "returned"
    /\ provider_calls = <<"gemini">>

\* a provider written 'OpenAI' is none of the three and becomes 'auto'
C29_WitnessUnknown ==
    /\ provider_arg = "OpenAI"
    /\ provider = "auto"
    /\ GenEnded

\* mode 'openai' without a key
C29_WitnessNoKey ==
    /\ provider = "openai"
    /\ gen_pc = "raised"
    /\ gen_exc = [type |-> "RuntimeError", at |-> "openai_key"]

-----------------------------------------------------------------------------
(* The finally block of create_final_video, lines 93-109, one close at a
   time: each close is tried in its own try/except, then the temporary
   directory is removed and the object's bookkeeping is reset *)

\* lines 95-104: the handles in the order the block closes them
CloseList ==
    ClipHandles(subtitle_clips)
        \o (IF final_video THEN <<Handle("composite")>> ELSE <<>>)
        \o <<Handle("audio"), Handle("video")>>

\* a block that gives up at the first close that raises
GiveUpAfterRaise(k, n) == n

\* lines 96-104: "except: pass", the block goes on with the next handle
GoOnAfterRaise(k, n) == k + 1

\* one call per behaviour, so that the record of the block is that of the call
CleanupOpenVideo == pc = "idle" /\ CleanupIdle /\ OpenVideo

CleanupOpenVideoFails == pc = "idle" /\ CleanupIdle /\ OpenVideoFails

CleanupFrame ==
    <<subtitles, subtitle_mode, words_per_line, script_text, keep_sub_images,
      MediaVars, asr_backend, clips, subtitle_clips, final_video, seg_idx, exc,
      written, built_by, call_dirs, call_files, call_handles, supplied_subs,
      composite_layers, BannerVars, EngineVars, PairVars, eng_prefs, GenVars,
      chunk_loop>>

\* one close() that returns
FinallyClose ==
    /\ pc = "finally"
    /\ fin_pos < Len(CloseList)
    /\ LET h == CloseList[fin_pos + 1]
       IN  /\ open_handles' = open_handles \ {h}
           /\ fin_log' = Append(fin_log, <<"close", h>>)
    /\ fin_pos' = fin_pos + 1
    /\ UNCHANGED <<CleanupFrame, tmp_dir, tmp_images, disk_dirs, disk_files,
                   cleanup_ran, pc>>

\* one close() that raises: the exception is swallowed, the handle stays as
\* it was
FinallyCloseRaises ==
    /\ pc = "finally"
    /\ fin_pos < Len(CloseList)
    /\ fin_log' = Append(fin_log, <<"close_raised", CloseList[fin_pos + 1]>>)
    /\ fin_pos' = GoOnAfterRaise(fin_pos, Len(CloseList))
    /\ UNCHANGED <<CleanupFrame, tmp_dir, tmp_images, disk_dirs, disk_files,
                   cleanup_ran, pc, open_handles>>

\* lines 106-109, then the call returns or re-raises
FinallyRemove ==
    /\ pc = "finally"
    /\ fin_pos = Len(CloseList)
    /\ IF RemovesTmpDir
       THEN /\ disk_dirs' = disk_dirs \ {tmp_dir}
            /\ disk_files' = {f \in disk_files : f[1] # tmp_dir}
            /\ fin_log' = Append(fin_log, <<"rmtree", <<"dir", tmp_dir>>>>)
       ELSE UNCHANGED <<disk_dirs, disk_files, fin_log>>
    /\ tmp_dir' = 0
    /\ tmp_images' = <<>>
    /\ cleanup_ran' = TRUE
    /\ pc' = IF exc = NoExc THEN "returned" ELSE "raised"
    /\ UNCHANGED <<CleanupFrame, open_handles, fin_pos>>

NextCleanup ==
    \/ CleanupOpenVideo
    \/ CleanupOpenVideoFails
    \/ BuildNothing
    \/ BuildWordcount
    \/ BuildWordcountNoAudio
    \/ BuildAsrNoBackend
    \/ BuildAsrBackendFails
    \/ BuildAsr
    \/ OpenAudio
    \/ OpenAudioFails
    \/ EnterGenerate
    \/ EnterGenerateFails
    \/ LoopSkip
    \/ LoopRender
    \/ LoopBannerFails
    \/ LoopClipFails
    \/ LoopReturn
    \/ Composite
    \/ CompositeFails
    \/ WriteVideo
    \/ WriteVideoFails
    \/ FinallyClose
    \/ FinallyCloseRaises
    \/ FinallyRemove

SpecCleanup == Init /\ [][NextCleanup]_vars

\* the try block of line 89 was entered: the audio clip of line 86 is open
TryEntered == Handle("audio") \in call_handles

\* the finally block tried to close h
CloseTried(h) ==
    \E k \in 1..Len(fin_log) :
        fin_log[k][2] = h /\ fin_log[k][1] \in {"close", "close_raised"}

\* C22: a create_final_video call that entered its try block and has left
\* has run its finally block: a close was tried on every overlay clip
\* returned by _generate_dynamic_subtitles, on the composite if it was built,
\* on the audio clip and on the video clip, whether or not an earlier close
\* raised; every close that returned left its handle closed; the removal of
\* the temporary directory comes after all of them and takes place unless
\* keep_sub_images is set; _tmp_dir is None and _tmp_images is empty.
C22_FinallyReleases ==
    (Exited /\ TryEntered) =>
        /\ cleanup_ran
        /\ \A h \in ClosedByFinally : CloseTried(h)
        /\ \A k \in 1..Len(fin_log) :
              /\ fin_log[k][1] = "close" => fin_log[k][2] \notin open_handles
              /\ fin_log[k][1] = "rmtree" => k = Len(fin_log)
        /\ ~keep_sub_images => call_dirs \cap disk_dirs = {}
        /\ tmp_dir = 0
        /\ tmp_images = <<>>

\* the close of the first overlay clip raised; the composite, the audio and
\* the video were closed all the same and the directory was removed
C22_Witness ==
    /\ pc = "returned"
    /\ Len(subtitle_clips) >= 1
    /\ final_video
    /\ fin_log[1][1] = "close_raised"
    /\ Len(fin_log) = Len(subtitle_clips) + 4
    /\ fin_log[Len(fin_log)][1] = "rmtree"
    /\ \A k \in 2..(Len(fin_log) - 1) : fin_log[k][1] = "close"

-----------------------------------------------------------------------------
(* The line grouping of _build_subtitles_by_asr, lines 160-172, over word
   sequences with texts of several lengths and character budgets around them *)

MaxGroupWords == 3   \* words the backend returns
MaxGroupBudget == 4  \* max_chars_per_line

\* words of one, three and four characters, one of them with a blank inside
\* (a segment without word timestamps), with times in and out of order
GroupTokens ==
    {[start |-> RInt(se[1]), end |-> RInt(se[2]), text |-> t] :
        se \in {<<0, 1>>, <<2, 1>>},
        t \in {<<"a">>, <<"a", "b", "a", "b">>, <<" ", "b", " ", "a">>}}

\* Scenario B: [("hi", 0.0, 0.3), ("there", 0.3, 0.6)], with budget 20
ScenarioBWords ==
    <<[start |-> RInt(0), end |-> Rat(3, 10), text |-> <<"h", "i">>],
      [start |-> Rat(3, 10), end |-> Rat(6, 10),
       text |-> <<"t", "h", "e", "r", "e">>]>>

InitGroup ==
    /\ BuilderFrame
    /\ subtitle_mode = "asr"
    /\ script_text = <<>>
    /\ audio_duration = RInt(MaxDur)
    /\ words_per_line = 1
    /\ fp_delta = 0
    /\ \/ /\ \E toks \in SeqsUpTo(GroupTokens, MaxGroupWords),
                word_level \in BOOLEAN :
                asr_output = IF word_level THEN AsWordLevel(toks)
                             ELSE AsSegmentLevel(toks)
          /\ max_chars \in 0..MaxGroupBudget
       \/ /\ asr_output = AsWordLevel(ScenarioBWords)
          /\ max_chars = 20

SpecGroup == InitGroup /\ [][NextAsr]_vars

\* the words of lines 148-158 and the lines of 161-172 for the output at hand
GroupedWords == ExtractWords(asr_output)

GroupedLines == GroupLines(GroupedWords, max_chars, <<>>, <<>>, NoneValue)

\* the words from..to, joined by single blanks
SpanText(words, from, to) == Join(WordTexts(SubSeq(words, from, to)))

\* the spans <<first, last>> of words that make up the lines, in order: each
\* line takes the shortest run of the next words whose joined text is the
\* line's text; <<0, 0>> when there is no such run
RECURSIVE Spans(_, _, _)
Spans(words, lines, from) ==
    IF lines = <<>> THEN <<>>
    ELSE LET fits == {to \in from..Len(words) :
                         SpanText(words, from, to) = Head(lines)[3]}
         IN  IF fits = {} THEN <<<<0, 0>>>>
             ELSE LET to == CHOOSE t \in fits : \A u \in fits : t <= u
                  IN  <<<<from, to>>>> \o Spans(words, Tail(lines), to + 1)

\* C23: the lines of the ASR grouping are runs of consecutive words that
\* together take every word exactly once and in order; a line's text is its
\* words joined by single blanks and is no longer than max_chars_per_line
\* unless the line is a single word; a line starts with its first word and
\* ends with its last, before the repair pass; the builder returns one
\* segment per line; and Scenario B gives the single segment
\* (0.0, 0.6, 'hi there').
C23_AsrGrouping ==
    (built_by = "asr" /\ asr_backend = "ok") =>
        LET words == GroupedWords
            lines == GroupedLines
            spans == Spans(words, lines, 1)
        IN  /\ Len(spans) = Len(lines)
            /\ \A k \in 1..Len(spans) :
                  /\ spans[k][1] = (IF k = 1 THEN 1 ELSE spans[k - 1][2] + 1)
                  /\ spans[k][1] <= spans[k][2]
                  /\ lines[k][1] = words[spans[k][1]].start
                  /\ lines[k][2] = words[spans[k][2]].end
                  /\ \/ Len(lines[k][3]) <= max_chars
                     \/ spans[k][1] = spans[k][2]
            /\ (IF spans = <<>> THEN 0 ELSE spans[Len(spans)][2]) = Len(words)
            /\ Len(subtitles) = Len(lines)
            /\ \A k \in 1..Len(lines) : subtitles[k][3] = Strip(lines[k][3])
            /\ (asr_output = AsWordLevel(ScenarioBWords)
                    /\ max_chars = 20) =>
                  subtitles = <<<<RInt(0), Rat(6, 10),
                                  <<"h", "i", " ", "t", "h", "e", "r", "e">>>>>>

\* three words in two lines: the first line holds two words within the
\* budget, the second a single word longer than the budget
C23_Witness ==
    /\ built_by = "asr"
    /\ asr_backend = "ok"
    /\ Len(GroupedWords) = 3
    /\ Len(GroupedLines) = 2
    /\ Len(GroupedLines[1][3]) = max_chars
    /\ GroupedLines[1][3] = <<"a", " ", "a">>
    /\ Len(GroupedLines[2][3]) > max_chars

C23_WitnessScenarioB ==
    /\ built_by = "asr"
    /\ asr_backend = "ok"
    /\ asr_output = AsWordLevel(ScenarioBWords)
    /\ Len(subtitles) = 1

-----------------------------------------------------------------------------
(* create_final_video on videos shorter than, and as long as, the narration *)

\* __init__, lines 32-51, then set_script_text, with a video of 1 s or MaxDur
InitTimeline ==
    /\ subtitles \in ManualSubs
    /\ supplied_subs = subtitles
    /\ composite_layers = <<>>
    /\ ElsewhereIdle
    /\ subtitle_mode \in {NormalizeMode(m) : m \in ModeArgs}
    /\ words_per_line \in 1..MaxWpl
    /\ script_text \in ScriptTexts
    /\ keep_sub_images = FALSE
    /\ tmp_dir = 0
    /\ tmp_images = <<>>
    /\ audio_duration \in AudioDurations
    /\ video_duration \in {RInt(1), RInt(MaxDur)}
    /\ fp_delta = 0
    /\ asr_backend = "unused"
    /\ asr_output = HostAsrOutput
    /\ max_chars = AsrCallMaxChars
    /\ disk_dirs = {}
    /\ disk_files = {}
    /\ open_handles = {}
    /\ pc = "idle"
    /\ clips = <<>>
    /\ subtitle_clips = <<>>
    /\ final_video = FALSE
    /\ seg_idx = 0
    /\ exc = NoExc
    /\ written = FALSE
    /\ built_by = "none"
    /\ call_dirs = {}
    /\ call_files = {}
    /\ call_handles = {}
    /\ cleanup_ran = FALSE

\* create_final_video called again and again, the configuration left alone
NextTimeline ==
    \/ OpenVideo
    \/ OpenVideoFails
    \/ BuildNothing
    \/ BuildWordcount
    \/ BuildWordcountNoAudio
    \/ BuildAsrNoBackend
    \/ BuildAsrBackendFails
    \/ BuildAsr
    \/ OpenAudio
    \/ OpenAudioFails
    \/ EnterGenerate
    \/ EnterGenerateFails
    \/ LoopSkip
    \/ LoopRender
    \/ LoopBannerFails
    \/ LoopClipFails
    \/ LoopReturn
    \/ Composite
    \/ CompositeFails
    \/ WriteVideo
    \/ WriteVideoFails
    \/ Finally

SpecTimeline == InitTimeline /\ [][NextTimeline]_vars

\* where an overlay clip ends on the timeline
ClipEnd(clip) == RAdd(clip.start, clip.duration)

\* C24: every overlay clip create_final_video places on the timeline ends at
\* or before the duration of the base video.
C24_ClipsWithinVideo ==
    \A k \in 1..Len(clips) : RLe(ClipEnd(clips[k]), video_duration)

-----------------------------------------------------------------------------
\* C25: with the default style ratios and a video of width and height at
\* least 1, the banner lies inside the frame (box_h <= vh and y_pos >= 0)
\* and the line width budget img_w - 2 * margin is positive.
C25_LayoutInsideFrame ==
    (style = DefaultStyle /\ video_size[1] >= 1 /\ video_size[2] >= 1) =>
        /\ banner.pc \notin {"off", "start"} =>
              banner.box_h <= video_size[2] /\ banner.y_pos >= 0
        /\ Wrapped => banner.max_line_width > 0

\* the banner of a video 40 pixels high starts above the frame
C25_BannerAboveFrame ==
    /\ style = DefaultStyle
    /\ video_size = <<100, 40>>
    /\ banner.pc = "saved"
    /\ banner.box_h = 50
    /\ banner.y_pos = 0 - 18

\* a video 32 pixels wide leaves no width for the text
C25_NoLineWidth ==
    /\ style = DefaultStyle
    /\ video_size = <<32, 1920>>
    /\ banner.pc = "saved"
    /\ banner.max_line_width = 0

-----------------------------------------------------------------------------
\* the places where a call can fail for a reason other than the mode: the
\* media files, the temporary directory, a banner, the composite, the encoder
MediaFailures ==
    {"none", "open_video", "open_audio", "mkdtemp", "create_text_image",
     "image_clip", "composite", "write_videofile"}

\* C26: self.subtitle_mode is always lower-case and never None or empty;
\* with a mode that is none of manual, wordcount and asr, create_final_video
\* calls no builder, has raised nothing when it opens the audio, fails only
\* for media reasons, and renders the segments the object holds, without
\* captions when it holds none.
C26_BadModeRenders ==
    /\ Truthy(subtitle_mode) /\ subtitle_mode = Lower(subtitle_mode)
    /\ (subtitle_mode \notin {"manual", "wordcount", "asr"}
            /\ pc \notin {"idle", "build"}) =>
          /\ built_by = "none"
          /\ Handle("probe") \notin call_handles
          /\ asr_backend = "unused"
          /\ pc = "open_audio" => exc = NoExc
          /\ exc.at \in MediaFailures
          /\ GenerateReturned =>
                [i \in 1..Len(subtitle_clips) |->
                    <<subtitle_clips[i].start, subtitle_clips[i].duration>>]
                    = ClipTimes(subtitles)
          /\ (pc = "returned" /\ subtitles = <<>>) =>
                written /\ subtitle_clips = <<>>

\* a render in mode 'karaoke' of an object without segments
C26_Witness ==
    /\ subtitle_mode = "karaoke"
    /\ pc = "returned"
    /\ subtitles = <<>>
    /\ written
    /\ composite_layers = <<Handle("video")>>

\* a render in mode 'karaoke' of the segments the object holds
C26_WitnessSegments ==
    /\ subtitle_mode = "karaoke"
    /\ pc = "returned"
    /\ Len(subtitle_clips) >= 1
    /\ written

-----------------------------------------------------------------------------
(* The while loop of _build_subtitles_by_wordcount, lines 124-137, one
   iteration at a time, for words_per_line negative, zero and positive *)

MaxChunkWords == 3   \* words of the narration

\* iterations after which the model stops following a loop: one more than
\* the words there are
MaxChunkSteps == MaxChunkWords + 1

\* the non-empty word lists of line 120
ChunkWordLists == SeqsUpTo({<<"a">>, <<"b">>}, MaxChunkWords) \ {<<>>}

\* lines 124-125: the loop is entered with a positive duration and words
InitChunk ==
    /\ OverlayIdle
    /\ BannerIdle
    /\ EngineIdle
    /\ PairIdle
    /\ eng_prefs = NoPrefs
    /\ GenIdle
    /\ CleanupIdle
    /\ \E w \in ChunkWordLists, n \in (0 - MaxWpl)..MaxWpl,
          d \in 1..MaxDur, r \in {0 - 1, 0, 1} :
          chunk_loop = [ChunkLocals("while") EXCEPT
                           !.words = w, !.words_per_line = n,
                           !.duration = RInt(d), !.delta = r]

ChunkOthers ==
    <<OverlayVars, BannerVars, EngineVars, PairVars, eng_prefs, GenVars,
      CleanupVars>>

\* line 127: words[i:i + words_per_line]
ChunkOf(c) == PySlice(c.words, c.i, c.i + c.words_per_line)

\* a test that takes no chunk for empty
ChunkEmptyNever(chunk) == FALSE

\* line 128: if not chunk
ChunkEmpty(chunk) == chunk = <<>>

\* line 126: the loop condition is false
ChunkExit ==
    /\ chunk_loop.pc = "while"
    /\ ~(chunk_loop.i < Len(chunk_loop.words))
    /\ chunk_loop' = [chunk_loop EXCEPT !.pc = "after"]
    /\ UNCHANGED ChunkOthers

\* line 128: break
ChunkBreak ==
    /\ chunk_loop.pc = "while"
    /\ chunk_loop.i < Len(chunk_loop.words)
    /\ ChunkEmpty(ChunkOf(chunk_loop))
    /\ chunk_loop' = [chunk_loop EXCEPT !.pc = "after"]
    /\ UNCHANGED ChunkOthers

\* lines 129-132: one segment is appended and i advances by words_per_line
ChunkAppend ==
    /\ chunk_loop.pc = "while"
    /\ chunk_loop.i < Len(chunk_loop.words)
    /\ ~ChunkEmpty(ChunkOf(chunk_loop))
    /\ chunk_loop.steps < MaxChunkSteps
    /\ LET c == chunk_loop
           chunk == ChunkOf(c)
           t_per_word == TPerWord(c.duration, Len(c.words), c.delta)
           start == ChunkStart(c.i, t_per_word)
           end == ChunkEnd(c.i, chunk, t_per_word, c.duration)
       IN  chunk_loop' = [c EXCEPT
                             !.subs = Append(c.subs, <<start, end, Join(chunk)>>),
                             !.i = c.i + c.words_per_line,
                             !.steps = c.steps + 1]
    /\ UNCHANGED ChunkOthers

\* lines 134-137
ChunkReturn ==
    /\ chunk_loop.pc = "after"
    /\ chunk_loop' = [chunk_loop EXCEPT
                         !.pc = "returned",
                         !.subs = ForceLastEnd(chunk_loop.subs,
                                               chunk_loop.duration)]
    /\ UNCHANGED ChunkOthers

NextChunk ==
    \/ ChunkExit
    \/ ChunkBreak
    \/ ChunkAppend
    \/ ChunkReturn

\* the interpreter goes on executing the loop as long as a statement remains
SpecChunk == InitChunk /\ [][NextChunk]_vars /\ WF_vars(NextChunk)

\* the loop run step by step gives what the builder operator computes
ChunkLoopAgrees ==
    chunk_loop.pc = "returned" =>
        chunk_loop.subs =
            ForceLastEnd(
                WordcountLoop(chunk_loop.words, 0, chunk_loop.words_per_line,
                              TPerWord(chunk_loop.duration,
                                       Len(chunk_loop.words), chunk_loop.delta),
                              chunk_loop.duration, <<>>),
                chunk_loop.duration)

\* C27: for every word list and every integer words_per_line, negative and
\* zero included, the chunking loop of _build_subtitles_by_wordcount comes to
\* its return; for words_per_line = 0 it returns no segment.
C27_ChunkLoopTerminates ==
    <>(/\ chunk_loop.pc = "returned"
       /\ chunk_loop.words_per_line = 0 => chunk_loop.subs = <<>>)

\* a negative words_per_line: one segment of all words but the last, then
\* the slice from a negative index is empty and the loop is left
C27_Witness ==
    /\ chunk_loop.pc = "returned"
    /\ chunk_loop.words_per_line = 0 - 1
    /\ Len(chunk_loop.words) = 3
    /\ chunk_loop.steps = 1
    /\ Len(chunk_loop.subs) = 1
    /\ chunk_loop.subs[1][3] = Join(SubSeq(chunk_loop.words, 1, 2))

\* words_per_line = 0 returns nothing
C27_WitnessZero ==
    /\ chunk_loop.pc = "returned"
    /\ chunk_loop.words_per_line = 0
    /\ chunk_loop.steps = 0
    /\ chunk_loop.subs = <<>>

====
